---- MODULE Spec2Model ----
(***************************************************************************)
(* TinyIDS device bridge engine (backend/services/mqtt_service.py) and the *)
(* device routes that drive it (backend/routes/devices.py).                *)
(*                                                                         *)
(* Python values are modelled as follows.  A string field that is None or  *)
(* "" is the empty string "" (the code tests such fields with `not x` and  *)
(* _coerce_str turns blank strings into None, so the two are never told    *)
(* apart).  A missing integer or timestamp is -1.  A row of the            *)
(* device_tokens table is the non-empty `token` field of its device, a row *)
(* of device_network_profiles is the `last_seen` field (NoTime: no row or  *)
(* NULL).  `.first()` of a query without ORDER BY returns the first        *)
(* matching row in the scan order the database chooses; the scan order is  *)
(* an input of every operation that runs such a query.                     *)
(***************************************************************************)
EXTENDS Integers, Sequences, FiniteSets, TLC

\* ------------------------------------------------------------------ bounds
MaxDevices == 2      \* device rows ever created (primary keys 1..MaxDevices)
MaxUsers == 1        \* accounts ever registered
MaxClock == 2        \* the clock runs over 0..MaxClock ticks
MaxLogs == 2         \* rows kept in the logs table
MaxStarters == 2     \* threads that call the schedulers' start methods
MaxMessages == 3      \* messages the bus delivers to the discovery client
MaxQueued == 52      \* devices that share a token in the queue runs

\* --------------------------------------------------------- program constants
ttl_sec == 300       \* _prune_pending_registrations(ttl_sec=300)
CodeBase == 1000     \* secrets.randbelow(9000) + 1000
TickSeconds == ttl_sec           \* the clock advances one TTL per tick
StartTime == 4 * ttl_sec         \* the clock when the service starts

NoTime == -1
NoDevice == 0

DeviceIds == 1..MaxDevices
UserIds == 1..MaxUsers
Times == {StartTime + t * TickSeconds : t \in 0..MaxClock}
\* Two of the codes _generate_session_code can draw.
SessionCodes == {CodeBase, CodeBase + 1}

\* ------------------------------------------------------------ string values
\* str.lower() on the strings of the model.
Lower(s) ==
  CASE s = "AA:01" -> "aa:01"
    [] s = "TOK1" -> "tok1"
    [] s = "ESP32" -> "esp32"
    [] s = "CAM" -> "cam"
    [] s = "Esp/Entrance" -> "esp/entrance"
    [] s = "esp/Entrance" -> "esp/entrance"
    [] s = "ESP/ALERT" -> "esp/alert"
    [] s = "esp/setting/Control" -> "esp/setting/control"
    [] OTHER -> s

\* str.strip() on the strings of the model.
Strip(s) ==
  CASE s = " " -> ""
    [] s = " tok1 " -> "tok1"
    [] s = " aa:01 " -> "aa:01"
    [] s = " 10.0.0.5 " -> "10.0.0.5"
    [] OTHER -> s

\* MQTTService._coerce_str: None for None and for blank text, else the
\* stripped text.
CoerceStr(value) == Strip(value)

\* MQTTService._coerce_int: int(value), None (-1) when it does not parse.
CoerceInt(value) ==
  CASE value = "1" -> 1
    [] value = "2" -> 2
    [] value = "3" -> 3
    [] OTHER -> -1

\* Python's `a or b` on strings.
Or2(a, b) == IF a # "" THEN a ELSE b
Or3(a, b, c) == Or2(Or2(a, b), c)

\* ------------------------------------------------------------------ payloads
\* A decoded JSON object.  Absent keys are blank; blocked_ips and
\* g_mqtt_whitelist are lists of strings.
EmptyPayload ==
  [mac |-> "", mac_address |-> "", token |-> "", esp_id |-> "",
   device_id |-> "", ip |-> "", device_name |-> "", source_ip |-> "",
   blocked_ips |-> <<>>, g_mqtt_whitelist |-> <<>>,
   alert_mode |-> "", status |-> "", ts |-> NoTime, cmd |-> "", message |-> ""]

\* -------------------------------------------------------------------- state
VARIABLES
  users,                 \* ids of the rows of the users table
  devices,               \* devices table: id -> row (with its token and profile)
  next_device_id,        \* AUTO_INCREMENT of the devices table
  logs,                  \* logs table, in insertion order
  blacklist,             \* blacklist table: set of [user_id, ip_address]
  auto_block_off,        \* users whose last PUT /settings/system asked for
                         \* auto_block_enabled = false
  system_settings,       \* user id -> the user's system_settings row
  client,                \* MQTTService.client is set (a broker URL is configured)
  allow_reregister,      \* MQTTService.allow_reregister
  reregister_once,       \* MQTTService.reregister_once
  pending_registrations, \* MQTTService.pending_registrations: key -> [token, ts]
  latest_settings,       \* MQTTService.latest_settings: device id -> payload
  pending_blocks,        \* MQTTService.pending_blocks: device id -> set of IPs
  session_codes,         \* MQTTService.session_codes: key -> code
  last_whitelist_sync,   \* MQTTService.last_whitelist_sync: user id -> time
  pending_settings_requests, \* MQTTService.pending_settings_requests
  now,                   \* time.time() / datetime.utcnow(), in seconds
  published,             \* what the last operation handed to client.publish
  last,                  \* the last operation: its name, inputs and result
  settled,               \* history: ledger keys consumed or due for pruning
  receiving,             \* the _runner thread is inside client.loop_forever()
  sched,                 \* the schedulers: configuration, *_thread_started
                         \* flags, loops started, callers of the start methods
  inflight,              \* locals of a _sync_blacklist_to_device call in progress
  dc                     \* the DiscoveryClient of discovery_client.py and its run

vars == <<users, devices, next_device_id, logs, blacklist, auto_block_off, system_settings,
          client, allow_reregister, reregister_once, pending_registrations,
          latest_settings, pending_blocks, session_codes, last_whitelist_sync,
          pending_settings_requests, now, published, last, settled,
          receiving, sched, inflight, dc>>

db_vars == <<users, devices, next_device_id, logs, blacklist, auto_block_off, system_settings>>
engine_vars == <<reregister_once, pending_registrations, latest_settings,
                 pending_blocks, session_codes, last_whitelist_sync,
                 pending_settings_requests>>
config_vars == <<client, allow_reregister>>
thread_vars == <<receiving, sched, inflight>>

\* ------------------------------------------------------------------ queries
\* The scan orders of the devices table: the permutations of its keys.
Orders ==
  {ord \in [DeviceIds -> DeviceIds] : \A i, j \in DeviceIds : i # j => ord[i] # ord[j]}

\* Query.first(): the first row of S in scan order ord, None if S is empty.
First(S, ord) ==
  IF S = {} THEN NoDevice
  ELSE LET i == CHOOSE k \in DeviceIds :
                  /\ ord[k] \in S
                  /\ \A j \in DeviceIds : ord[j] \in S => k <= j
       IN ord[i]

\* User.query.first(): users are never deleted, the first row is the oldest.
owner_of(us) == IF us = {} THEN 0 ELSE CHOOSE u \in us : \A v \in us : u <= v

\* ------------------------------------------------------------ _resolve_device
\* _mac_matches(device) of _resolve_device.
mac_matches(devs, d, mac_value) ==
  /\ d # NoDevice
  /\ \/ mac_value = ""
     \/ devs[d].mac_address = ""
     \/ Lower(devs[d].mac_address) = Lower(mac_value)

payload_mac_for_resolve(payload) ==
  CoerceStr(Or3(payload.mac_address, payload.mac, ""))

\* Faulty variant: the MAC is compared as stored, without lower-casing.
resolve_by_mac_exact_case(us, devs, payload, ord) ==
  LET owner_id == IF us = {} THEN 1 ELSE owner_of(us)
      mac_value == payload_mac_for_resolve(payload)
  IN IF mac_value = "" THEN NoDevice
     ELSE First({d \in DOMAIN devs :
                   /\ devs[d].user_id = owner_id
                   /\ devs[d].mac_address # ""
                   /\ devs[d].mac_address = mac_value}, ord)

\* Step 1: exact match by lower-cased MAC in the owner's account.
resolve_by_mac(us, devs, payload, ord) ==
  LET owner_id == IF us = {} THEN 1 ELSE owner_of(us)
      mac_value == payload_mac_for_resolve(payload)
  IN IF mac_value = "" THEN NoDevice
     ELSE First({d \in DOMAIN devs :
                   /\ devs[d].user_id = owner_id
                   /\ devs[d].mac_address # ""
                   /\ Lower(devs[d].mac_address) = Lower(mac_value)}, ord)

\* Faulty variant: any row that holds the token is taken.
resolve_by_token_any(devs, payload) ==
  LET mac_value == payload_mac_for_resolve(payload)
      token_value == CoerceStr(payload.token)
      token_rows == {d \in DOMAIN devs : devs[d].token # "" /\ devs[d].token = token_value}
  IN IF token_value # "" /\ mac_value = "" /\ token_rows # {}
     THEN CHOOSE d \in token_rows : TRUE
     ELSE NoDevice

\* Step 2: exact match by token, only without a MAC and only when the token
\* has exactly one row.
resolve_by_token(devs, payload) ==
  LET mac_value == payload_mac_for_resolve(payload)
      token_value == CoerceStr(payload.token)
      token_rows == {d \in DOMAIN devs : devs[d].token # "" /\ devs[d].token = token_value}
  IN IF token_value # "" /\ mac_value = "" /\ Cardinality(token_rows) = 1
     THEN CHOOSE d \in token_rows : TRUE
     ELSE NoDevice

\* Steps 3-6: esp_id, numeric device id, device_id as esp_id, IP, name.
resolve_by_other(us, devs, payload, ord) ==
  LET owner_id == IF us = {} THEN 1 ELSE owner_of(us)
      mac_value == payload_mac_for_resolve(payload)
      esp_id == CoerceStr(payload.esp_id)
      by_esp == First({d \in DOMAIN devs : devs[d].esp_id = esp_id}, ord)
      device_id == CoerceInt(payload.device_id)
      by_id == First({d \in DOMAIN devs : d = device_id /\ devs[d].user_id = owner_id}, ord)
      esp_candidate == CoerceStr(payload.device_id)
      by_cand == First({d \in DOMAIN devs : devs[d].esp_id = esp_candidate}, ord)
      ip_address == CoerceStr(payload.ip)
      by_ip == First({d \in DOMAIN devs :
                        devs[d].user_id = owner_id /\ devs[d].ip_address = ip_address}, ord)
      device_name == CoerceStr(payload.device_name)
      by_name == First({d \in DOMAIN devs :
                          /\ devs[d].user_id = owner_id
                          /\ Lower(devs[d].name) = Lower(device_name)}, ord)
  IN IF esp_id # "" /\ mac_matches(devs, by_esp, mac_value) THEN by_esp
     ELSE IF device_id # -1 /\ mac_matches(devs, by_id, mac_value) THEN by_id
     ELSE IF payload.device_id # "" /\ esp_id = "" /\ esp_candidate # ""
             /\ mac_matches(devs, by_cand, mac_value) THEN by_cand
     ELSE IF ip_address # "" /\ mac_value = "" /\ by_ip # NoDevice THEN by_ip
     ELSE IF device_name # "" /\ mac_matches(devs, by_name, mac_value) THEN by_name
     ELSE NoDevice

\* MQTTService._resolve_device: the device it returns (NoDevice for None) and
\* the step it returned from.
resolve_steps(us, devs, payload, ord) ==
  IF resolve_by_mac(us, devs, payload, ord) # NoDevice
  THEN [device |-> resolve_by_mac(us, devs, payload, ord), step |-> "mac"]
  ELSE IF resolve_by_token(devs, payload) # NoDevice
  THEN [device |-> resolve_by_token(devs, payload), step |-> "token"]
  ELSE IF resolve_by_other(us, devs, payload, ord) # NoDevice
  THEN [device |-> resolve_by_other(us, devs, payload, ord), step |-> "other"]
  ELSE [device |-> NoDevice, step |-> "none"]

\* MQTTService._resolve_device: the device id, NoDevice for None.
resolve_device(us, devs, payload, ord) == resolve_steps(us, devs, payload, ord).device

\* ------------------------------------------------------ sequences and maps
Range(f) == {f[x] : x \in DOMAIN f}

RECURSIVE dedupe(_)
\* list(dict.fromkeys(xs)): the first occurrence of every item, in order.
dedupe(xs) ==
  IF xs = <<>> THEN <<>>
  ELSE LET init == dedupe(SubSeq(xs, 1, Len(xs) - 1))
           x == xs[Len(xs)]
       IN IF x \in Range(init) THEN init ELSE Append(init, x)

RECURSIVE strip_items(_)
\* [str(item).strip() for item in xs if str(item).strip()], and the same
\* for the items of a comma-separated string.
strip_items(xs) ==
  IF xs = <<>> THEN <<>>
  ELSE LET rest == strip_items(Tail(xs))
       IN IF Strip(Head(xs)) = "" THEN rest ELSE <<Strip(Head(xs))>> \o rest

\* dict.pop(key, None)
map_pop(f, k) == [x \in DOMAIN f \ {k} |-> f[x]]
\* dict[key] = value
map_put(f, k, v) == [x \in DOMAIN f \cup {k} |-> IF x = k THEN v ELSE f[x]]

\* -------------------------------------------------------------- the engine
\* The mutable state an operation works on, threaded through its steps.
Cur ==
  [devices |-> devices, next_device_id |-> next_device_id, logs |-> logs,
   blacklist |-> blacklist, pending_registrations |-> pending_registrations,
   latest_settings |-> latest_settings, pending_blocks |-> pending_blocks,
   session_codes |-> session_codes, last_whitelist_sync |-> last_whitelist_sync,
   pending_settings_requests |-> pending_settings_requests,
   published |-> <<>>,
   publish_raises |-> FALSE,    \* client.publish raises during the operation
   raised |-> FALSE,            \* an exception is on its way up the call stack
   committed |-> [devices |-> devices, logs |-> logs, blacklist |-> blacklist],
   open_publishes |-> 0]        \* publishes made with uncommitted writes in db.session

\* The rows db.session holds for the operation.
session_rows(s) == [devices |-> s.devices, logs |-> s.logs, blacklist |-> s.blacklist]

\* db.session.commit()
commit(s) == [s EXCEPT !.committed = session_rows(s)]

\* client.publish returned: the message is on the bus.
on_bus(s, m) ==
  [s EXCEPT !.published = Append(@, m),
            !.open_publishes = IF session_rows(s) # s.committed THEN @ + 1 ELSE @]

\* A message handed to client.publish(topic, body).  The topic is its base
\* name and, for `<base>-<code>`, the code (0: no suffix).
Msg(topic, code, kind, token, body_code, blocked, wl) ==
  [topic |-> topic, code |-> code, kind |-> kind, token |-> token,
   body_code |-> body_code, blocked_ips |-> blocked, g_mqtt_whitelist |-> wl]

\* client.publish(topic, body) with no try around it: an exception it
\* raises goes up to the caller.
publish(s, m) ==
  IF s.publish_raises THEN [s EXCEPT !.raised = TRUE] ELSE on_bus(s, m)

\* try: client.publish(topic, body) / except Exception: logger.warning(...)
publish_or_warn(s, m) == IF s.publish_raises THEN s ELSE on_bus(s, m)

\* The except clause of a try around the call that left s.
caught(s) == [s EXCEPT !.raised = FALSE]

discovery_topic == "esp/Entrance"

\* MQTTService._session_code_for_device
session_code_for_device(s, d) ==
  LET k1 == Lower(s.devices[d].mac_address)
      k2 == Lower(s.devices[d].esp_id)
  IN IF s.devices[d].mac_address # "" /\ k1 \in DOMAIN s.session_codes
     THEN s.session_codes[k1]
     ELSE IF s.devices[d].esp_id # "" /\ k2 \in DOMAIN s.session_codes
     THEN s.session_codes[k2]
     ELSE 0

\* MQTTService._control_topic_for_device: the code that suffixes
\* esp/setting/Control, 0 for the bare topic.
control_topic_for_device(s, d) == session_code_for_device(s, d)

\* MQTTService._store_session_code
store_session_code(s, d, code) ==
  LET keys == {Lower(k) : k \in {s.devices[d].mac_address, s.devices[d].esp_id} \ {""}}
  IN [s EXCEPT !.session_codes =
        [k \in DOMAIN @ \cup keys |-> IF k \in keys THEN code ELSE @[k]]]

\* MQTTService._parse_timestamp: the payload's time, None when it has none.
parse_timestamp(payload) == payload.ts

\* MQTTService._touch_device
touch_device(s, d, payload, mark_active) ==
  LET ip_address == CoerceStr(payload.ip)
      mac_address == CoerceStr(Or3(payload.mac_address, payload.mac, ""))
      device_name == CoerceStr(payload.device_name)
      dev == s.devices[d]
      seen == IF parse_timestamp(payload) # NoTime THEN parse_timestamp(payload) ELSE now
  IN [s EXCEPT !.devices[d] =
        [dev EXCEPT
           !.ip_address = IF ip_address # "" THEN ip_address ELSE @,
           !.mac_address = IF mac_address # "" THEN mac_address ELSE @,
           !.name = IF device_name # "" /\ dev.name \in {"ESP32", "unknown"}
                    THEN device_name ELSE @,
           !.is_active = IF mark_active = "true" THEN TRUE
                         ELSE IF mark_active = "false" THEN FALSE ELSE @,
           !.last_seen = seen]]

\* MQTTService._derive_ip(payload, "source")
derive_source_ip(payload) == CoerceStr(payload.source_ip)

\* Faulty variant: the queue is not capped.
register_settings_request_uncapped(s, d) ==
  LET token_value == CoerceStr(s.devices[d].token)
      token_key == Lower(token_value)
      old == IF token_key \in DOMAIN s.pending_settings_requests
             THEN s.pending_settings_requests[token_key] ELSE <<>>
      queue == IF d \in Range(old) THEN old ELSE Append(old, d)
  IN IF token_value = "" THEN s
     ELSE [s EXCEPT !.pending_settings_requests = map_put(@, token_key, queue)]

\* MQTTService._register_settings_request
register_settings_request(s, d) ==
  LET token_value == CoerceStr(s.devices[d].token)
      token_key == Lower(token_value)
      old == IF token_key \in DOMAIN s.pending_settings_requests
             THEN s.pending_settings_requests[token_key] ELSE <<>>
      queue == IF d \in Range(old) THEN old ELSE Append(old, d)
      capped == IF Len(queue) > 50 THEN SubSeq(queue, Len(queue) - 49, Len(queue)) ELSE queue
  IN IF token_value = "" THEN s
     ELSE [s EXCEPT !.pending_settings_requests = map_put(@, token_key, capped)]

\* MQTTService._pop_pending_settings_device: <<state, device id>>; the id
\* is NoDevice when the queue is empty or the queued device no longer exists.
pop_pending_settings_device(s, token_value) ==
  LET token_key == Lower(CoerceStr(token_value))
      has == token_key \in DOMAIN s.pending_settings_requests
      queue == IF has THEN s.pending_settings_requests[token_key] ELSE <<>>
  IN IF CoerceStr(token_value) = "" \/ queue = <<>> THEN <<s, NoDevice>>
     ELSE <<[s EXCEPT !.pending_settings_requests =
                IF Tail(queue) = <<>> THEN map_pop(@, token_key)
                ELSE map_put(@, token_key, Tail(queue))],
            IF Head(queue) \in DOMAIN s.devices THEN Head(queue) ELSE NoDevice>>

\* MQTTService._clear_pending_settings_request
clear_pending_settings_request(s, token_value, d) ==
  LET token_key == Lower(CoerceStr(token_value))
      has == token_key \in DOMAIN s.pending_settings_requests
      queue == IF has THEN s.pending_settings_requests[token_key] ELSE <<>>
      kept == SelectSeq(queue, LAMBDA x : x # d)
  IN IF CoerceStr(token_value) = "" \/ queue = <<>> \/ d \notin Range(queue) THEN s
     ELSE [s EXCEPT !.pending_settings_requests =
             IF kept = <<>> THEN map_pop(@, token_key) ELSE map_put(@, token_key, kept)]

\* ------------------------------------------------- settings cache and sync
\* The cached payload of a settings report: the fields the engine reads.
cache_entry(token, blocked, wl) ==
  [token |-> token, blocked_ips |-> blocked, g_mqtt_whitelist |-> wl]

\* list(pending) of a Python set: its members in the hash order ipord, a
\* sequence that lists every string once.
set_as_list(pending, ipord) == SelectSeq(ipord, LAMBDA x : x \in pending)

\* blocked_list of _apply_blocklist_update and _sync_blacklist_to_device:
\* the cached blocked_ips as a list of stripped non-blank strings.
blocked_list_of(cached) == strip_items(cached.blocked_ips)

\* Faulty variant: the lists are concatenated, duplicates kept.
merge_blocked_concat(blocked_list, extra) == blocked_list \o extra

\* merged = list(dict.fromkeys(blocked_list + list(pending)))
merge_blocked(blocked_list, extra) == dedupe(blocked_list \o extra)

\* MQTTService._apply_blocklist_update
apply_blocklist_update(s, d, pending, cached, ipord) ==
  LET token_value == s.devices[d].token
      merged == merge_blocked(blocked_list_of(cached), set_as_list(pending, ipord))
      payload == [cached EXCEPT !.token = token_value, !.blocked_ips = merged]
      s1 == [s EXCEPT !.latest_settings = map_put(@, d, payload)]
  IN IF ~client \/ token_value = "" THEN s
     ELSE publish_or_warn(s1, Msg("esp/setting/Control", control_topic_for_device(s1, d),
                          "settings", token_value, 0, merged, payload.g_mqtt_whitelist))

\* Faulty variant: the address is not added to the pending set.
queue_block_not_pending(s, d, ip_address, ipord) ==
  LET token_value == s.devices[d].token
      ip_value == CoerceStr(ip_address)
      old == IF d \in DOMAIN s.pending_blocks THEN s.pending_blocks[d] ELSE {}
      s1 == [s EXCEPT !.pending_blocks = map_put(@, d, old)]
      s2 == apply_blocklist_update(s1, d, old, s1.latest_settings[d], ipord)
      s3 == register_settings_request(s1, d)
  IN IF token_value = "" \/ ip_value = "" THEN s
     ELSE IF d \in DOMAIN s1.latest_settings
     THEN [s2 EXCEPT !.pending_blocks = map_pop(@, d)]
     ELSE IF client
     THEN publish(s3, Msg("esp/setting/Control", control_topic_for_device(s1, d),
                          "showsetting", token_value, 0, <<>>, <<>>))
     ELSE s1

\* MQTTService._queue_block_for_device
queue_block_for_device(s, d, ip_address, ipord) ==
  LET token_value == s.devices[d].token
      ip_value == CoerceStr(ip_address)
      old == IF d \in DOMAIN s.pending_blocks THEN s.pending_blocks[d] ELSE {}
      pending == old \cup {ip_value}
      s1 == [s EXCEPT !.pending_blocks = map_put(@, d, pending)]
      s2 == apply_blocklist_update(s1, d, pending, s1.latest_settings[d], ipord)
      s3 == register_settings_request(s1, d)
  IN IF token_value = "" \/ ip_value = "" THEN s
     ELSE IF d \in DOMAIN s1.latest_settings
     THEN [s2 EXCEPT !.pending_blocks = map_pop(@, d)]
     ELSE IF client
     THEN publish(s3, Msg("esp/setting/Control", control_topic_for_device(s1, d),
                          "showsetting", token_value, 0, <<>>, <<>>))
     ELSE s1

\* Faulty variant: the merged list is not compared with the cached one.
sync_blacklist_always(s, d, blacklist_ips) ==
  LET token_value == s.devices[d].token
      has == d \in DOMAIN s.latest_settings
      cached == IF has THEN s.latest_settings[d] ELSE cache_entry("", <<>>, <<>>)
      blocked_list == blocked_list_of(cached)
      merged == merge_blocked(blocked_list, blacklist_ips)
      payload == [cached EXCEPT !.token = token_value, !.blocked_ips = merged]
      s1 == [s EXCEPT !.latest_settings = map_put(@, d, payload)]
  IN IF ~client \/ blacklist_ips = <<>> \/ token_value = "" THEN s
     ELSE publish_or_warn(s1, Msg("esp/setting/Control", control_topic_for_device(s1, d),
                          "settings", token_value, 0, merged, payload.g_mqtt_whitelist))

\* MQTTService._sync_blacklist_to_device
sync_blacklist_to_device(s, d, blacklist_ips) ==
  LET token_value == s.devices[d].token
      has == d \in DOMAIN s.latest_settings
      cached == IF has THEN s.latest_settings[d] ELSE cache_entry("", <<>>, <<>>)
      blocked_list == blocked_list_of(cached)
      merged == merge_blocked(blocked_list, blacklist_ips)
      payload == [cached EXCEPT !.token = token_value, !.blocked_ips = merged]
      s1 == [s EXCEPT !.latest_settings = map_put(@, d, payload)]
  IN IF ~client \/ blacklist_ips = <<>> \/ token_value = "" \/ merged = blocked_list THEN s
     ELSE publish_or_warn(s1, Msg("esp/setting/Control", control_topic_for_device(s1, d),
                          "settings", token_value, 0, merged, payload.g_mqtt_whitelist))

\* No _sync_blacklist_to_device call is in progress.
NoCall == [device |-> NoDevice, cached |-> cache_entry("", <<>>, <<>>), blacklist_ips |-> <<>>]

\* The locals of a _sync_blacklist_to_device call after
\* cached = self.latest_settings.get(device.id, {}).
sync_blacklist_call(s, d, blacklist_ips) ==
  [device |-> d,
   cached |-> IF d \in DOMAIN s.latest_settings THEN s.latest_settings[d]
              ELSE cache_entry("", <<>>, <<>>),
   blacklist_ips |-> blacklist_ips]

\* The rest of the call: the merge is computed from the locals, and
\* self.latest_settings[device.id] = dict(payload) is written with no lock
\* held since the read.
sync_blacklist_finish(s, call) ==
  LET d == call.device
      token_value == s.devices[d].token
      blocked_list == blocked_list_of(call.cached)
      merged == merge_blocked(blocked_list, call.blacklist_ips)
      payload == [call.cached EXCEPT !.token = token_value, !.blocked_ips = merged]
      s1 == [s EXCEPT !.latest_settings = map_put(@, d, payload)]
  IN IF merged = blocked_list THEN s
     ELSE publish_or_warn(s1, Msg("esp/setting/Control", control_topic_for_device(s1, d),
                                  "settings", token_value, 0, merged, payload.g_mqtt_whitelist))

\* MQTTService._normalize_mqtt_whitelist
normalize_mqtt_whitelist(value) == strip_items(value)

\* The rows of S in scan order ord, as a list.
rows_in_order(S, ord) ==
  SelectSeq([i \in DeviceIds |-> ord[i]], LAMBDA d : d \in S)

\* re.match(r"^(?:\\d{1,3}\\.){3}\\d{1,3}$", value) of _get_blacklist_ips, on
\* the strings of the model.  In the raw string every doubled backslash is
\* a literal backslash, so a group is a backslash, one to three letters d,
\* a backslash and any one character: JunkIp matches, no dotted quad does.
JunkIp == "\\d\\.\\d\\.\\d\\.\\d"
engine_ip_pattern(value) == value = JunkIp

\* _is_valid_ip of routes/blacklist.py, re.match(r"^(?:\d{1,3}\.){3}\d{1,3}$",
\* value), on the strings of the model: the dotted quads.
is_valid_ip(value) == value \in {"10.0.0.5", "10.0.0.9"}

\* MQTTService._get_blacklist_ips: the account's rows in the order ipord
\* the query returns them, those the pattern rejects left out.
get_blacklist_ips(bl, user_id, ipord) ==
  LET values == {CoerceStr(row.ip_address) : row \in {r \in bl : r.user_id = user_id}}
  IN SelectSeq(set_as_list(values, ipord),
               LAMBDA value : value # "" /\ engine_ip_pattern(value))

RECURSIVE poll_devices(_, _, _)
\* The loop body of _start_settings_poll over the devices ids.
poll_devices(s, ids, ipord) ==
  IF ids = <<>> THEN s
  ELSE LET d == Head(ids)
           token_value == s.devices[d].token
           blocked == get_blacklist_ips(s.blacklist, s.devices[d].user_id, ipord)
           s1 == register_settings_request(s, d)
           s2 == publish(s1, Msg("esp/setting/Control", control_topic_for_device(s, d),
                                 "showsetting", token_value, 0, <<>>, <<>>))
       IN IF token_value = "" THEN poll_devices(s, Tail(ids), ipord)
          ELSE IF s2.raised THEN s2
          ELSE poll_devices(sync_blacklist_to_device(s2, d, blocked), Tail(ids), ipord)

\* One pass of the settings poll loop (_start_settings_poll._loop).
settings_poll(s, ord, ipord) ==
  IF ~client THEN s
  ELSE caught(poll_devices(
                s, rows_in_order({d \in DOMAIN s.devices : s.devices[d].token # ""}, ord),
                ipord))

RECURSIVE poll_devices_raising(_, _, _, _)
\* The loop body of _start_settings_poll over the devices ids when
\* client.publish raises on the showsetting request of device fails_at: the
\* exception leaves the for loop and is caught by the try around it.
poll_devices_raising(s, ids, ipord, fails_at) ==
  IF ids = <<>> THEN s
  ELSE LET d == Head(ids)
           token_value == s.devices[d].token
           blocked == get_blacklist_ips(s.blacklist, s.devices[d].user_id, ipord)
           s1 == register_settings_request(s, d)
           s2 == publish(s1, Msg("esp/setting/Control", control_topic_for_device(s, d),
                                 "showsetting", token_value, 0, <<>>, <<>>))
       IN IF token_value = "" THEN poll_devices_raising(s, Tail(ids), ipord, fails_at)
          ELSE IF d = fails_at THEN s1
          ELSE poll_devices_raising(sync_blacklist_to_device(s2, d, blocked), Tail(ids),
                                    ipord, fails_at)

\* One pass of the settings poll loop in which that publish raises.
settings_poll_raising(s, ord, ipord, fails_at) ==
  IF ~client THEN s
  ELSE poll_devices_raising(
         s, rows_in_order({d \in DOMAIN s.devices : s.devices[d].token # ""}, ord),
         ipord, fails_at)

RECURSIVE whitelist_union(_, _, _)
\* union_topics of _sync_mqtt_whitelist_for_user over the devices ids.
whitelist_union(s, ids, acc) ==
  IF ids = <<>> THEN acc
  ELSE LET d == Head(ids)
           topics == IF d \in DOMAIN s.latest_settings
                     THEN normalize_mqtt_whitelist(s.latest_settings[d].g_mqtt_whitelist)
                     ELSE <<>>
       IN whitelist_union(s, Tail(ids), dedupe(acc \o topics))

RECURSIVE whitelist_push(_, _, _)
\* The republish loop of _sync_mqtt_whitelist_for_user.
whitelist_push(s, ids, union_topics) ==
  IF ids = <<>> THEN s
  ELSE LET d == Head(ids)
           token_value == s.devices[d].token
           cached == s.latest_settings[d]
           current == normalize_mqtt_whitelist(cached.g_mqtt_whitelist)
           payload == [cached EXCEPT !.token = token_value,
                                     !.g_mqtt_whitelist = union_topics]
           s1 == [s EXCEPT !.latest_settings = map_put(@, d, payload)]
           s2 == publish(s1, Msg("esp/setting/Control", control_topic_for_device(s1, d),
                                 "settings", token_value, 0, payload.blocked_ips,
                                 union_topics))
       IN IF token_value = "" \/ d \notin DOMAIN s.latest_settings
             \/ Range(current) = Range(union_topics)
          THEN whitelist_push(s, Tail(ids), union_topics)
          ELSE IF s2.raised THEN s2
          ELSE whitelist_push(s2, Tail(ids), union_topics)

\* Faulty variant: devices last seen more than 30 minutes ago count as online.
sync_mqtt_whitelist_no_cutoff(s, user_id, ord) ==
  LET lastsync == IF user_id \in DOMAIN s.last_whitelist_sync
                  THEN s.last_whitelist_sync[user_id] ELSE 0
      s1 == [s EXCEPT !.last_whitelist_sync = map_put(@, user_id, now)]
      online == {d \in DOMAIN s.devices :
                   /\ s.devices[d].user_id = user_id
                   /\ s.devices[d].token # ""
                   /\ s.devices[d].last_seen # NoTime}
      ids == rows_in_order(online, ord)
      union_topics == whitelist_union(s1, ids, <<>>)
  IN IF ~client \/ now - lastsync < 3 THEN s
     ELSE IF online = {} \/ union_topics = <<>> THEN s1
     ELSE whitelist_push(s1, ids, union_topics)

\* MQTTService._sync_mqtt_whitelist_for_user
sync_mqtt_whitelist_for_user(s, user_id, ord) ==
  LET lastsync == IF user_id \in DOMAIN s.last_whitelist_sync
                  THEN s.last_whitelist_sync[user_id] ELSE 0
      s1 == [s EXCEPT !.last_whitelist_sync = map_put(@, user_id, now)]
      cutoff == now - 30 * 60
      online == {d \in DOMAIN s.devices :
                   /\ s.devices[d].user_id = user_id
                   /\ s.devices[d].token # ""
                   /\ s.devices[d].last_seen # NoTime
                   /\ s.devices[d].last_seen >= cutoff}
      ids == rows_in_order(online, ord)
      union_topics == whitelist_union(s1, ids, <<>>)
  IN IF ~client \/ now - lastsync < 3 THEN s
     ELSE IF online = {} \/ union_topics = <<>> THEN s1
     ELSE whitelist_push(s1, ids, union_topics)

\* ------------------------------------------------------------- registration
\* Faulty variant: the ages are computed the wrong way round, so nothing is stale.
prune_pending_registrations_swapped(pending) ==
  LET stale == {key \in DOMAIN pending : pending[key].ts - now > ttl_sec}
  IN [key \in DOMAIN pending \ stale |-> pending[key]]

\* MQTTService._prune_pending_registrations
prune_pending_registrations(pending) ==
  LET stale == {key \in DOMAIN pending : now - pending[key].ts > ttl_sec}
  IN [key \in DOMAIN pending \ stale |-> pending[key]]

\* MQTTService.publish_discover: <<state, returned value>>
publish_discover(s) ==
  IF ~client THEN <<s, FALSE>>
  ELSE <<publish(s, Msg(discovery_topic, 0, "DISCOVER", "", 0, <<>>, <<>>)), TRUE>>

\* Faulty variant: the ledger is keyed by the MAC as given, not lower-cased.
request_registration_raw_key(s, mac_address, token) ==
  LET mac_value == CoerceStr(mac_address)
      token_value == CoerceStr(token)
      entry == [token |-> Lower(token_value), ts |-> now]
      s1 == [s EXCEPT !.pending_registrations =
               map_put(prune_pending_registrations(@), mac_value, entry)]
  IN IF ~client \/ mac_value = "" \/ token_value = "" THEN <<s, FALSE>>
     ELSE publish_discover(s1)

\* MQTTService.request_registration: <<state, returned value>>
request_registration(s, mac_address, token) ==
  LET mac_value == CoerceStr(mac_address)
      token_value == CoerceStr(token)
      entry == [token |-> Lower(token_value), ts |-> now]
      s1 == [s EXCEPT !.pending_registrations =
               map_put(prune_pending_registrations(@), Lower(mac_value), entry)]
  IN IF ~client \/ mac_value = "" \/ token_value = "" THEN <<s, FALSE>>
     ELSE publish_discover(s1)

\* Faulty variant: an existing device keeps the token row it has.
register_device_keep_token(s, mac_address, token, ord) ==
  LET owner == owner_of(users)
      mac_value == Strip(mac_address)
      by_esp == First({d \in DOMAIN s.devices : s.devices[d].esp_id = mac_value}, ord)
      by_mac == First({d \in DOMAIN s.devices :
                         /\ s.devices[d].user_id = owner
                         /\ s.devices[d].mac_address # ""
                         /\ Lower(s.devices[d].mac_address) = Lower(mac_value)}, ord)
      found == IF by_esp # NoDevice THEN by_esp ELSE by_mac
      d == IF found # NoDevice THEN found ELSE s.next_device_id
      row == IF found # NoDevice
             THEN [s.devices[found] EXCEPT !.is_active = TRUE, !.mac_address = mac_value,
                                           !.esp_id = mac_value,
                                           !.token = IF @ = "" THEN token ELSE @,
                                           !.last_seen = now]
             ELSE [user_id |-> owner, name |-> "ESP32", esp_id |-> mac_value,
                   is_active |-> TRUE, ip_address |-> "", mac_address |-> mac_value,
                   token |-> token, last_seen |-> now, rule |-> FALSE]
  IN IF users = {} THEN <<s, NoDevice>>
     ELSE <<commit([s EXCEPT !.devices = map_put(@, d, row),
                             !.next_device_id = IF found # NoDevice THEN @ ELSE @ + 1]), d>>

\* MQTTService._register_device_from_registration: <<state, device id>>
register_device_from_registration(s, mac_address, token, ord) ==
  LET owner == owner_of(users)
      mac_value == Strip(mac_address)
      by_esp == First({d \in DOMAIN s.devices : s.devices[d].esp_id = mac_value}, ord)
      by_mac == First({d \in DOMAIN s.devices :
                         /\ s.devices[d].user_id = owner
                         /\ s.devices[d].mac_address # ""
                         /\ Lower(s.devices[d].mac_address) = Lower(mac_value)}, ord)
      found == IF by_esp # NoDevice THEN by_esp ELSE by_mac
      d == IF found # NoDevice THEN found ELSE s.next_device_id
      row == IF found # NoDevice
             THEN [s.devices[found] EXCEPT !.is_active = TRUE, !.mac_address = mac_value,
                                           !.esp_id = mac_value, !.token = token,
                                           !.last_seen = now]
             ELSE [user_id |-> owner, name |-> "ESP32", esp_id |-> mac_value,
                   is_active |-> TRUE, ip_address |-> "", mac_address |-> mac_value,
                   token |-> token, last_seen |-> now, rule |-> FALSE]
  IN IF users = {} THEN <<s, NoDevice>>
     ELSE <<commit([s EXCEPT !.devices = map_put(@, d, row),
                             !.next_device_id = IF found # NoDevice THEN @ ELSE @ + 1]), d>>

\* Faulty variant: a matched entry is read with get() and left in the ledger.
handle_registration_reply_no_pop(s, payload, ord, code) ==
  LET mac_value == CoerceStr(Or3(payload.mac, payload.mac_address, ""))
      token_value == CoerceStr(payload.token)
      key == Lower(mac_value)
      reg == register_device_from_registration(s, mac_value, token_value, ord)
      s2 == store_session_code(reg[1], reg[2], code)
      s3 == publish(s2, Msg(discovery_topic, 0, "Confirm", token_value, code, <<>>, <<>>))
  IN IF mac_value = "" \/ token_value = "" THEN <<s, FALSE>>
     ELSE IF key \notin DOMAIN s.pending_registrations THEN <<s, FALSE>>
     ELSE IF s.pending_registrations[key].token # Lower(token_value) THEN <<s, FALSE>>
     ELSE IF reg[2] # NoDevice /\ client THEN <<s3, TRUE>>
     ELSE <<reg[1], TRUE>>

\* MQTTService._handle_registration_reply: <<state, returned value>>, with
\* code the value _generate_session_code draws.
handle_registration_reply(s, payload, ord, code) ==
  LET mac_value == CoerceStr(Or3(payload.mac, payload.mac_address, ""))
      token_value == CoerceStr(payload.token)
      key == Lower(mac_value)
      s1 == [s EXCEPT !.pending_registrations = map_pop(@, key)]
      reg == register_device_from_registration(s1, mac_value, token_value, ord)
      s2 == store_session_code(reg[1], reg[2], code)
      s3 == publish(s2, Msg(discovery_topic, 0, "Confirm", token_value, code, <<>>, <<>>))
  IN IF mac_value = "" \/ token_value = "" THEN <<s, FALSE>>
     ELSE IF key \notin DOMAIN s.pending_registrations THEN <<s, FALSE>>
     ELSE IF s.pending_registrations[key].token # Lower(token_value) THEN <<s, FALSE>>
     ELSE IF reg[2] # NoDevice /\ client THEN <<s3, TRUE>>
     ELSE <<reg[1], TRUE>>

\* ------------------------------------------------------- message handlers
log_row(d, kind) == [device_id |-> d, kind |-> kind]

\* db.session.add(log); db.session.commit()
add_log(s, d, kind) == commit([s EXCEPT !.logs = Append(@, log_row(d, kind))])

\* getattr(settings, "auto_block_enabled", True) on a system_settings row:
\* the row has the columns log_retention_days, attack_notifications and
\* cooldown_seconds and no attribute auto_block_enabled, so the default is
\* returned.
row_auto_block_enabled(row) ==
  IF "auto_block_enabled" \in DOMAIN row THEN row.auto_block_enabled ELSE TRUE

\* MQTTService._auto_block_allowed
auto_block_allowed(user_id) ==
  IF user_id \notin DOMAIN system_settings THEN TRUE
  ELSE row_auto_block_enabled(system_settings[user_id])

\* MQTTService._auto_block_ip
auto_block_ip(s, user_id, ip_address) ==
  LET ip_value == CoerceStr(ip_address)
      existing == [user_id |-> user_id, ip_address |-> ip_value] \in s.blacklist
  IN IF ip_value = "" \/ existing THEN s
     ELSE [s EXCEPT !.blacklist = @ \cup {[user_id |-> user_id, ip_address |-> ip_value]}]

\* blacklist.ip_address is UNIQUE: the INSERT raises IntegrityError when two
\* rows hold the same address.
blacklist_unique(bl) == \A a, b \in bl : a.ip_address = b.ip_address => a = b

\* The persisted part of s is what s0 held: the transaction was rolled back.
rollback(s, s0) ==
  [s EXCEPT !.devices = s0.devices, !.next_device_id = s0.next_device_id,
            !.logs = s0.logs, !.blacklist = s0.blacklist]

\* _handle_alert raises: the row _auto_block_ip added is flushed by the lazy
\* load of device.token in _queue_block_for_device, and its address is on
\* the blacklist of another account (IntegrityError).
alert_raises(s, payload, ord) ==
  LET d == resolve_device(users, s.devices, payload, ord)
      source_ip == derive_source_ip(payload)
      user_id == s.devices[d].user_id
  IN /\ d # NoDevice
     /\ source_ip # ""
     /\ auto_block_allowed(user_id)
     /\ ~blacklist_unique(auto_block_ip(s, user_id, source_ip).blacklist)

\* MQTTService._handle_alert.  When it raises, the handler ends there and
\* the transaction is rolled back.
handle_alert(s, payload, ord, ipord) ==
  LET d == resolve_device(users, s.devices, payload, ord)
      s1 == touch_device(s, d, payload, "true")
      source_ip == derive_source_ip(payload)
      user_id == s.devices[d].user_id
      blocks == source_ip # "" /\ auto_block_allowed(user_id)
      added == auto_block_ip(s1, user_id, source_ip)
      s2 == IF blocks THEN queue_block_for_device(added, d, source_ip, ipord) ELSE s1
  IN IF d = NoDevice THEN s
     ELSE IF alert_raises(s, payload, ord) THEN rollback(s1, s)
     ELSE IF s2.raised THEN rollback(s2, s)
     ELSE add_log(s2, d, "alert")

\* MQTTService._handle_settings
handle_settings(s, payload, ord, ipord) ==
  LET token_value == CoerceStr(payload.token)
      resolved == resolve_device(users, s.devices, payload, ord)
      popped == IF resolved = NoDevice /\ token_value # ""
                THEN pop_pending_settings_device(s, token_value)
                ELSE <<s, resolved>>
      d == popped[2]
      s1 == IF token_value # ""
            THEN clear_pending_settings_request(popped[1], token_value, d)
            ELSE popped[1]
      s2 == touch_device(s1, d, payload, "true")
      enriched == cache_entry(payload.token, payload.blocked_ips, payload.g_mqtt_whitelist)
      s3 == [s2 EXCEPT !.latest_settings = map_put(@, d, enriched)]
      pending == IF d \in DOMAIN s3.pending_blocks THEN s3.pending_blocks[d] ELSE {}
      s4 == IF pending # {}
            THEN [apply_blocklist_update(s3, d, pending, enriched, ipord)
                    EXCEPT !.pending_blocks = map_pop(@, d)]
            ELSE s3
      s5 == caught(sync_mqtt_whitelist_for_user(s4, s4.devices[d].user_id, ord))
  IN IF d = NoDevice THEN popped[1]
     ELSE add_log(s5, d, "settings")

\* The liveness flag an alive message carries: "" when it carries none.
alive_flag(payload) ==
  LET alert_raw == CoerceStr(payload.alert_mode)
      status_raw == CoerceStr(payload.status)
  IN IF alert_raw = "" /\ status_raw # ""
        /\ Lower(status_raw) \in {"on", "off", "enabled", "disabled", "true", "false"}
     THEN status_raw ELSE alert_raw

\* MQTTService._handle_alive
handle_alive(s, payload, ord) ==
  LET d == resolve_device(users, s.devices, payload, ord)
      alert_raw == alive_flag(payload)
      s1 == IF alert_raw # ""
            THEN [s EXCEPT !.devices[d].is_active =
                    Lower(alert_raw) \in {"on", "enabled", "true", "1"}]
            ELSE s
  IN IF d = NoDevice THEN s ELSE commit(touch_device(s1, d, payload, "none"))

\* MQTTService._handle_generic_log
handle_generic_log(s, payload, ord) ==
  LET d == resolve_device(users, s.devices, payload, ord)
  IN IF d = NoDevice THEN s
     ELSE add_log(touch_device(s, d, payload, "true"), d, "generic")

\* ------------------------------------------------------------------ dispatch
\* Settings.MQTT_TOPICS: unset by default.
MQTT_TOPICS == <<>>

\* MQTTService._resolve_topics
resolve_topics ==
  LET topics == IF MQTT_TOPICS # <<>> THEN MQTT_TOPICS
                ELSE <<"esp/alert", "esp/setting/now", "esp/setting/control",
                       "esp/alive", "esp/entrance", "esp/esp/entrance">>
      normalized == {Lower(t) : t \in Range(topics)}
      with_all == IF "esp/#" \notin normalized THEN Append(topics, "esp/#") ELSE topics
  IN IF normalized \subseteq {"esp/alert", "esp/setting/now", "esp/alive"}
     THEN <<"esp/#">> ELSE with_all

\* MQTTService.fallback_topics, as init_app computes it.
fallback_topics ==
  {Lower(t) : t \in Range(resolve_topics)} \ {"esp/alert", "esp/setting/now", "esp/alive"}

\* Faulty variant: a JSON value that is no object is dispatched as it is.
decode_payload_unwrapped(kind, object) == object

\* payload = json.loads(raw_payload) of _on_message for a payload that
\* decodes: a JSON object is dispatched as it is, any other JSON value
\* (object.message holds it) as {"message": value}.
decode_payload(kind, object) ==
  IF kind = "object" THEN object ELSE [EmptyPayload EXCEPT !.message = object.message]

\* MQTTService._on_message on a message whose payload is not JSON
\* (kind "invalid"), a JSON value that is no object ("scalar": wrapped as
\* {"message": value}) or a JSON object ("object").  The result holds the
\* state after it, the reply handler's return value ("none": not called)
\* the handlers called, the payload dispatched, whether a warning was
\* logged and whether a handler raised.
on_message(s, topic, kind, object, ord, ipord, code) ==
  LET topic_key == Lower(Strip(topic))
      payload == decode_payload(kind, object)
      is_entrance == topic_key \in {"esp/entrance", "esp/esp/entrance"}
      reply == IF is_entrance THEN handle_registration_reply(s, payload, ord, code)
               ELSE <<s, FALSE>>
      ret == IF is_entrance THEN (IF reply[2] THEN "true" ELSE "false") ELSE "none"
      first == IF is_entrance THEN {"registration_reply"} ELSE {}
  IN IF kind = "invalid"
     THEN [s |-> s, ret |-> "none", handlers |-> {}, payload |-> EmptyPayload,
           warning |-> topic_key # "esp/alive/check", raised |-> FALSE]
     ELSE IF is_entrance /\ reply[2]
     THEN [s |-> reply[1], ret |-> ret, handlers |-> first,
           payload |-> payload, warning |-> FALSE, raised |-> FALSE]
     ELSE IF topic_key = "esp/alert"
     THEN [s |-> handle_alert(s, payload, ord, ipord), ret |-> ret,
           handlers |-> first \cup {"alert"},
           payload |-> payload, warning |-> FALSE,
           raised |-> alert_raises(s, payload, ord)]
     ELSE IF topic_key \in {"esp/setting/now", "esp/setting/control"}
     THEN [s |-> handle_settings(s, payload, ord, ipord), ret |-> ret,
           handlers |-> first \cup {"settings"},
           payload |-> payload, warning |-> FALSE, raised |-> FALSE]
     ELSE IF topic_key = "esp/alive"
     THEN [s |-> handle_alive(s, payload, ord), ret |-> ret,
           handlers |-> first \cup {"alive"},
           payload |-> payload, warning |-> FALSE, raised |-> FALSE]
     ELSE IF topic_key \in fallback_topics
     THEN [s |-> handle_generic_log(s, payload, ord), ret |-> ret,
           handlers |-> first \cup {"generic_log"},
           payload |-> payload, warning |-> FALSE, raised |-> FALSE]
     ELSE [s |-> s, ret |-> ret, handlers |-> first,
           payload |-> payload, warning |-> FALSE, raised |-> FALSE]

\* --------------------------------------------------------------- schedulers
\* The three periodic tasks, in the order init_app starts them.
StartOrder == <<"discovery", "settings_poll", "device_cleanup">>
Schedulers == Range(StartOrder)

\* The threads that call the start methods.
Starters == 1..MaxStarters

\* int(app.config.get(key, default) or default) of init_app.
int_or(value, default) == IF value = 0 THEN default ELSE value

\* The scheduler attributes init_app sets from the configured values:
\* MQTT_DISCOVERY_INTERVAL, MQTT_SETTINGS_POLL_INTERVAL,
\* DEVICE_PRUNE_INTERVAL, DEVICE_PRUNE_HOURS and MQTT_AUTO_DISCOVERY.
sched_config(configured, prune_hours, auto_discovery) ==
  [configured |-> configured,
   discovery_interval |-> int_or(configured["discovery"], 0),
   settings_poll_interval |-> int_or(configured["settings_poll"], 0),
   device_prune_interval |-> int_or(configured["device_cleanup"], 3600),
   device_prune_hours |-> int_or(prune_hours, 24),
   auto_discovery_enabled |-> auto_discovery,
   started |-> [k \in Schedulers |-> FALSE],
   loops |-> [k \in Schedulers |-> 0],
   pc |-> [t \in Starters |-> 1],
   passed |-> [t \in Starters |-> FALSE]]

\* The schedulers of a service nobody starts: every interval is unset.
SchedIdle ==
  [sched_config([k \in Schedulers |-> 0], 24, FALSE)
     EXCEPT !.pc = [t \in Starters |-> Len(StartOrder) + 1]]

\* The early return of _start_discovery_loop, _start_settings_poll and
\* _start_device_cleanup.
start_returns(sc, k) ==
  CASE k = "discovery" ->
         sc.started[k] \/ sc.discovery_interval <= 0 \/ ~sc.auto_discovery_enabled
    [] k = "settings_poll" -> sc.started[k] \/ sc.settings_poll_interval <= 0
    [] k = "device_cleanup" -> sc.started[k] \/ sc.device_prune_hours <= 0

\* ------------------------------------------------------------------ actions
\* The variables an operation leaves as the state s it ended in.
Commit(s) ==
  /\ devices' = s.devices
  /\ next_device_id' = s.next_device_id
  /\ logs' = s.logs
  /\ blacklist' = s.blacklist
  /\ pending_registrations' = s.pending_registrations
  /\ latest_settings' = s.latest_settings
  /\ pending_blocks' = s.pending_blocks
  /\ session_codes' = s.session_codes
  /\ last_whitelist_sync' = s.last_whitelist_sync
  /\ pending_settings_requests' = s.pending_settings_requests
  /\ published' = s.published
  /\ s.next_device_id <= MaxDevices + 1
  /\ Len(s.logs) <= MaxLogs

\* History of the ledger, kept beside the program: a key is "consumed" once
\* a reply for it was accepted and "pruned" once a prune pass ran while its
\* entry was older than the TTL, until the key is requested again.
reply_key(payload) == Lower(CoerceStr(Or3(payload.mac, payload.mac_address, "")))

settle_consumed(payload) ==
  map_put(settled, reply_key(payload),
          [how |-> "consumed", token |-> Lower(CoerceStr(payload.token))])

settle_pruned(requested) ==
  LET stale == {key \in DOMAIN pending_registrations :
                  now - pending_registrations[key].ts > ttl_sec} \ {requested}
      keep == (DOMAIN settled \cup stale) \ {requested}
  IN [key \in keep |->
        IF key \in stale
        THEN [how |-> "pruned", token |-> pending_registrations[key].token]
        ELSE settled[key]]

Op(op, topic, kind, payload, ret, handlers, device) ==
  [op |-> op, topic |-> topic, kind |-> kind, payload |-> payload, ret |-> ret,
   handlers |-> handlers, device |-> device, dispatched |-> EmptyPayload,
   warning |-> FALSE, raised |-> FALSE, publish_raises |-> FALSE, open_publishes |-> 0,
   user_id |-> 0]

\* ----------------------------------------------------- the discovery client
\* discovery_client.py: the nonce main draws with generate_nonce.
Nonce == "n1"

\* A message on the discovery topic as DiscoveryClient._on_message sees it:
\* its text, whether json.loads(text) gives a dict and that dict's nonce,
\* token and device_id ("" when absent); origin names who published it.
DcMsg(json, nonce, token, device_id, text, origin) ==
  [json |-> json, nonce |-> nonce, token |-> token, device_id |-> device_id,
   text |-> text, origin |-> origin]

\* json.dumps({"cmd": "DISCOVER", "nonce": nonce})
discover_body(nonce) == DcMsg(TRUE, nonce, "", "", "{}", "client")

\* f"Confirm-{self.nonce}-{self.token}"
confirm_body(nonce, token) ==
  DcMsg(FALSE, "", "", "", "Confirm-" \o nonce \o "-" \o token, "client")

\* text.lower() on the texts of the model.
text_lower(text) ==
  CASE text = "Confirm" -> "confirm"
    [] text = "Confirm-n1-tokA" -> "confirm-n1-toka"
    [] OTHER -> text

\* lowered.startswith("confirm") on the texts of the model.
startswith_confirm(lowered) == lowered \in {"confirm", "confirm-n1-toka"}

\* DiscoveryClient.__init__ and main: a new client that has not connected.
DcInit ==
  [subscribed |-> FALSE, nonce |-> "", device_reply |-> FALSE, device_id |-> "",
   token |-> "", confirm_reply |-> FALSE, pc |-> "start", ret |-> "none",
   sent |-> <<>>, heard |-> {}, delivered |-> discover_body(""), count |-> 0]

\* Faulty variant: the nonce of the reply is not compared.
dc_on_message_any_nonce(c, m) ==
  IF m.json /\ c.nonce # "" /\ m.token # "" /\ m.device_id # ""
  THEN [c EXCEPT !.device_id = m.device_id, !.token = m.token, !.device_reply = TRUE]
  ELSE IF startswith_confirm(text_lower(m.text))
  THEN [c EXCEPT !.confirm_reply = TRUE]
  ELSE c

\* DiscoveryClient._on_message
dc_on_message(c, m) ==
  IF m.json /\ c.nonce # "" /\ m.nonce = c.nonce /\ m.token # "" /\ m.device_id # ""
  THEN [c EXCEPT !.device_id = m.device_id, !.token = m.token, !.device_reply = TRUE]
  ELSE IF startswith_confirm(text_lower(m.text))
  THEN [c EXCEPT !.confirm_reply = TRUE]
  ELSE c

\* DiscoveryClient.publish_confirm
dc_publish_confirm(c) ==
  IF c.nonce = "" \/ c.token = "" THEN c
  ELSE [c EXCEPT !.sent = Append(@, confirm_body(c.nonce, c.token))]

\* The bus delivers a message to the receive loop, client.loop_forever()
\* in _runner, which calls MQTTService._on_message; publish_raises says
\* whether client.publish raises while the message is handled.  _on_message
\* catches nothing after the JSON decode: an exception of a handler comes
\* out of loop_forever, _runner logs it and the thread ends.
Deliver(topic, kind, payload, ord, ipord, code, publish_raises) ==
  /\ receiving
  /\ \E r \in {on_message([Cur EXCEPT !.publish_raises = publish_raises],
                          topic, kind, payload, ord, ipord, code)} :
       /\ Commit(r.s)
       /\ last' = [Op("on_message", topic, kind, payload, r.ret, r.handlers, NoDevice)
                     EXCEPT !.dispatched = r.payload, !.warning = r.warning,
                            !.raised = r.raised \/ r.s.raised,
                            !.publish_raises = publish_raises,
                            !.open_publishes = r.s.open_publishes]
       /\ settled' = IF r.ret = "true" THEN settle_consumed(payload) ELSE settled
       /\ receiving' = ~(r.raised \/ r.s.raised)
  /\ UNCHANGED <<dc, users, auto_block_off, system_settings, config_vars, sched, inflight,
                 reregister_once, now>>

\* A message is handled with a working bus client.
OnMessage(topic, kind, payload, ord, ipord, code) ==
  Deliver(topic, kind, payload, ord, ipord, code, FALSE)

\* A message is handled while client.publish raises.
OnMessagePublishRaises(topic, kind, payload, ord, ipord, code) ==
  Deliver(topic, kind, payload, ord, ipord, code, TRUE)

\* POST /auth/register: a new account.
RegisterUser ==
  /\ Cardinality(users) < MaxUsers
  /\ users' = users \cup {Cardinality(users) + 1}
  /\ published' = <<>>
  /\ last' = Op("register", "", "", EmptyPayload, "none", {}, NoDevice)
  /\ UNCHANGED <<dc, devices, next_device_id, logs, blacklist, auto_block_off, system_settings, now>>
  /\ UNCHANGED <<dc, engine_vars, config_vars, thread_vars, settled>>

\* The columns of a new system_settings row (attack_notifications is the one
\* the model keeps).
default_system_settings == [attack_notifications |-> TRUE]

\* PUT /settings/system by the logged-in user user_id: system_settings.  The
\* row is created when missing; of the payload only log_retention_days,
\* attack_notifications and cooldown_seconds are stored.  flag is the
\* payload's auto_block_enabled: "true", "false" or "" when absent.
PutSystemSettings(user_id, attack_notifications, flag) ==
  LET settings == IF user_id \in DOMAIN system_settings THEN system_settings[user_id]
                  ELSE default_system_settings
  IN /\ user_id \in users
     /\ system_settings' =
          map_put(system_settings, user_id,
                  [settings EXCEPT !.attack_notifications = attack_notifications])
     /\ auto_block_off' = IF flag = "false" THEN auto_block_off \cup {user_id}
                          ELSE IF flag = "true" THEN auto_block_off \ {user_id}
                          ELSE auto_block_off
     /\ published' = <<>>
     /\ last' = Op("system_settings", "", "", EmptyPayload, flag, {}, NoDevice)
     /\ UNCHANGED <<dc, users, devices, next_device_id, logs, blacklist>>
     /\ UNCHANGED <<dc, engine_vars, config_vars, thread_vars, now, settled>>

\* POST /devices/discover by a logged-in user: discover_device.
DiscoverDevice(mac_raw, token_raw) ==
  LET mac_address == Strip(Or2(mac_raw, ""))
      token_value == Strip(Or2(token_raw, ""))
      r == request_registration(Cur, mac_address, token_value)
      called == client /\ mac_address # "" /\ token_value # ""
      p == [EmptyPayload EXCEPT !.mac = mac_raw, !.token = token_raw]
  IN /\ users # {}
     /\ Commit(IF called THEN r[1] ELSE Cur)
     /\ last' = Op("discover_device", "", "", p,
                   IF ~called THEN "none" ELSE IF r[2] THEN "true" ELSE "false",
                   {}, NoDevice)
     /\ settled' = IF called /\ r[2] THEN settle_pruned(Lower(mac_address)) ELSE settled
     /\ UNCHANGED <<dc, users, auto_block_off, system_settings, config_vars, thread_vars,
                    reregister_once, now>>

\* MQTTService.request_registration called directly.
RequestRegistration(mac_address, token) ==
  LET r == request_registration(Cur, mac_address, token)
      p == [EmptyPayload EXCEPT !.mac = mac_address, !.token = token]
  IN /\ Commit(r[1])
     /\ last' = Op("request_registration", "", "", p,
                   IF r[2] THEN "true" ELSE "false", {}, NoDevice)
     /\ settled' = IF r[2] THEN settle_pruned(Lower(CoerceStr(mac_address))) ELSE settled
     /\ UNCHANGED <<dc, users, auto_block_off, system_settings, config_vars, thread_vars,
                    reregister_once, now>>

\* POST /devices/<id>/reregister by the device's owner: request_reregister.
RequestReregister(d) ==
  /\ d \in DOMAIN devices
  /\ devices[d].user_id \in users
  /\ devices' = [devices EXCEPT ![d].token = "", ![d].is_active = FALSE]
  /\ reregister_once' = reregister_once \cup {devices[d].esp_id}
  /\ published' = <<>>
  /\ last' = Op("request_reregister", "", "", EmptyPayload, "none", {}, d)
  /\ UNCHANGED <<dc, users, next_device_id, logs, blacklist, auto_block_off, system_settings, now>>
  /\ UNCHANGED <<dc, pending_registrations, latest_settings, pending_blocks, session_codes,
                 last_whitelist_sync, pending_settings_requests, config_vars, thread_vars, settled>>

\* PUT /devices/<id>/token by the device's owner: upsert_token.  An empty
\* token is answered with 400 and nothing is stored.
UpsertToken(d, token_raw) ==
  LET token_value == Strip(Or2(token_raw, ""))
  IN /\ d \in DOMAIN devices
     /\ devices[d].user_id \in users
     /\ devices' = IF token_value # "" THEN [devices EXCEPT ![d].token = token_value]
                                       ELSE devices
     /\ published' = <<>>
     /\ last' = Op("upsert_token", "", "", [EmptyPayload EXCEPT !.token = token_raw],
                   IF token_value # "" THEN "true" ELSE "false", {}, d)
     /\ UNCHANGED <<dc, users, next_device_id, logs, blacklist, auto_block_off, system_settings>>
     /\ UNCHANGED <<dc, engine_vars, config_vars, thread_vars, now, settled>>

\* POST /devices/<id>/publish by the device's owner: publish_to_device, with
\* the default message.  topic_raw is the payload's topic_base ("" when
\* absent).  Without a bus client the answer is 503, with append_token and
\* no token 400; with append_token false, a token and the control base the
\* call of the undefined mqtt_service._control_topic_for_token raises
\* AttributeError.  In the three cases nothing is published.
PublishToDevice(d, topic_raw, append_token) ==
  LET topic_base == Strip(Or2(topic_raw, "esp/setting/Control"))
      token_value == devices[d].token
      raises == ~append_token /\ token_value # ""
                /\ Lower(topic_base) = "esp/setting/control"
      sent == client /\ (IF append_token THEN token_value # "" ELSE ~raises)
      topic == IF append_token THEN topic_base \o "-" \o token_value ELSE topic_base
  IN /\ d \in DOMAIN devices
     /\ devices[d].user_id \in users
     /\ published' = IF sent THEN <<Msg(topic, 0, "showsetting", "", 0, <<>>, <<>>)>>
                      ELSE <<>>
     /\ last' = Op("publish_to_device", topic_raw, "", EmptyPayload,
                   IF sent THEN "sent" ELSE "error", {}, d)
     /\ UNCHANGED <<dc, db_vars, engine_vars, config_vars, thread_vars, now, settled>>

\* POST /devices by the logged-in user user_id: register_device.  A second
\* row with the same esp_id violates the UNIQUE constraint and nothing is
\* stored.
RegisterDevice(user_id, name_raw, esp_raw, token_raw, mac_raw) ==
  LET name == Strip(Or2(name_raw, ""))
      esp_id == Strip(Or2(esp_raw, ""))
      token_value == Strip(Or2(token_raw, ""))
      row == [user_id |-> user_id, name |-> name, esp_id |-> esp_id,
              is_active |-> FALSE, ip_address |-> "",
              mac_address |-> Strip(Or2(mac_raw, "")),
              token |-> token_value, last_seen |-> NoTime, rule |-> FALSE]
      stored == /\ name # ""
                /\ esp_id # ""
                /\ \A d \in DOMAIN devices : devices[d].esp_id # esp_id
  IN /\ user_id \in users
     /\ next_device_id <= MaxDevices
     /\ devices' = IF stored THEN map_put(devices, next_device_id, row) ELSE devices
     /\ next_device_id' = IF stored THEN next_device_id + 1 ELSE next_device_id
     /\ published' = <<>>
     /\ last' = Op("register_device", "", "",
                   [EmptyPayload EXCEPT !.mac = mac_raw, !.token = token_raw,
                                        !.esp_id = esp_raw, !.device_name = name_raw],
                   IF stored THEN "true" ELSE "false", {},
                   IF stored THEN next_device_id ELSE NoDevice)
     /\ UNCHANGED <<dc, users, logs, blacklist, auto_block_off, system_settings>>
     /\ UNCHANGED <<dc, engine_vars, config_vars, thread_vars, now, settled>>

\* MQTTService._resolve_device run on a payload.
ResolveDevice(payload, ord) ==
  \E r \in {resolve_steps(users, devices, payload, ord)} :
    /\ published' = <<>>
    /\ last' = Op("resolve_device", "", "", payload, r.step, {}, r.device)
    /\ UNCHANGED <<dc, db_vars, engine_vars, config_vars, thread_vars, now, settled>>

\* The settings poll thread wakes up and runs one pass.
SettingsPoll(ord, ipord) ==
  \E r \in {settings_poll(Cur, ord, ipord)} :
    /\ Commit(r)
    /\ last' = Op("settings_poll", "", "", EmptyPayload, "none", {}, NoDevice)
    /\ UNCHANGED <<dc, users, auto_block_off, system_settings, config_vars, thread_vars,
                   reregister_once, now, settled>>

\* The settings poll thread runs one pass and client.publish raises on the
\* showsetting request of the token-holding device fails_at.
SettingsPollRaises(ord, ipord, fails_at) ==
  /\ client
  /\ fails_at \in DOMAIN devices
  /\ devices[fails_at].token # ""
  /\ \E r \in {settings_poll_raising(Cur, ord, ipord, fails_at)} : Commit(r)
  /\ last' = Op("settings_poll_raises", "", "", EmptyPayload, "error", {}, fails_at)
  /\ UNCHANGED <<dc, users, auto_block_off, system_settings, config_vars, thread_vars,
                 reregister_once, now, settled>>

\* MQTTService._sync_blacklist_to_device called for device d with the
\* account blocklist blacklist_ips.
SyncBlacklist(d, blacklist_ips) ==
  /\ d \in DOMAIN devices
  /\ \E r \in {sync_blacklist_to_device(Cur, d, blacklist_ips)} : Commit(r)
  /\ last' = Op("sync_blacklist_to_device", "", "",
                [EmptyPayload EXCEPT !.blocked_ips = blacklist_ips], "none", {}, d)
  /\ UNCHANGED <<dc, users, auto_block_off, system_settings, config_vars, thread_vars,
                 reregister_once, now,
                 settled>>

\* The settings-poll thread enters _sync_blacklist_to_device(d, blacklist_ips),
\* passes its early returns and reads the cache entry of d.
SyncRead(d, blacklist_ips) ==
  /\ inflight = NoCall
  /\ d \in DOMAIN devices
  /\ client /\ blacklist_ips # <<>> /\ devices[d].token # ""
  /\ inflight' = sync_blacklist_call(Cur, d, blacklist_ips)
  /\ last' = Op("sync_read", "", "",
                [EmptyPayload EXCEPT !.blocked_ips = blacklist_ips], "none", {}, d)
  /\ published' = <<>>
  /\ UNCHANGED <<dc, users, devices, next_device_id, logs, blacklist, auto_block_off,
                 system_settings, config_vars, receiving, sched, reregister_once,
                 pending_registrations, latest_settings, pending_blocks, session_codes,
                 last_whitelist_sync, pending_settings_requests, now, settled>>

\* The settings-poll thread runs the call it is in to its end.
SyncWrite ==
  /\ inflight # NoCall
  /\ \E r \in {sync_blacklist_finish(Cur, inflight)} : Commit(r)
  /\ inflight' = NoCall
  /\ last' = Op("sync_write", "", "",
                [EmptyPayload EXCEPT !.blocked_ips = inflight.blacklist_ips], "none", {},
                inflight.device)
  /\ UNCHANGED <<dc, users, auto_block_off, system_settings, config_vars, receiving, sched,
                 reregister_once, now, settled>>

\* The receive loop calls _sync_mqtt_whitelist_for_user(user_id), with the
\* device query returning its rows in the order ord.
WhitelistSync(user_id, ord) ==
  /\ receiving
  /\ user_id \in users
  /\ \E r \in {sync_mqtt_whitelist_for_user(Cur, user_id, ord)} : Commit(r)
  /\ last' = [Op("whitelist_sync", "", "", EmptyPayload, "none", {}, NoDevice)
                EXCEPT !.user_id = user_id]
  /\ UNCHANGED <<dc, users, auto_block_off, system_settings, config_vars, thread_vars,
                 reregister_once, now, settled>>

\* One pass of the loop of _start_device_cleanup, with a retention window of
\* hours.  enforced says whether the database enforces the foreign key
\* device_rules.device_id -> devices.id (MySQL, the configured default,
\* does): the pass deletes the logs, token and profile rows of a stale
\* device and then its devices row, never its device_rules row, so with the
\* key enforced the DELETE raises, the except clause logs it and nothing of
\* the pass is committed.
device_cleanup(s, hours, enforced) ==
  LET cutoff == now - hours * 3600
      stale_ids == {d \in DOMAIN s.devices :
                      s.devices[d].last_seen # NoTime /\ s.devices[d].last_seen < cutoff}
  IN IF stale_ids = {} THEN s
     ELSE IF enforced /\ \E d \in stale_ids : s.devices[d].rule THEN s
     ELSE commit([s EXCEPT
                    !.logs = SelectSeq(@, LAMBDA row : row.device_id \notin stale_ids),
                    !.devices = [d \in DOMAIN @ \ stale_ids |-> @[d]]])

\* The device cleanup thread runs one pass.
DeviceCleanup(enforced) ==
  /\ sched.loops["device_cleanup"] > 0
  /\ \E r \in {device_cleanup(Cur, sched.device_prune_hours, enforced)} : Commit(r)
  /\ last' = Op("device_cleanup", "", "", EmptyPayload, "none", {}, NoDevice)
  /\ UNCHANGED <<dc, users, auto_block_off, system_settings, config_vars, thread_vars,
                 reregister_once, now, settled>>

\* GET /device-rules/<device_id> by the logged-in user user_id:
\* get_device_rule, which creates the device's rule row when it has none.
GetDeviceRule(user_id, device_id) ==
  /\ user_id \in users
  /\ LET found == device_id \in DOMAIN devices /\ devices[device_id].user_id = user_id
     IN /\ devices' = IF found THEN [devices EXCEPT ![device_id].rule = TRUE] ELSE devices
        /\ last' = Op("get_device_rule", "", "", EmptyPayload,
                      IF found THEN "200" ELSE "404", {}, device_id)
  /\ published' = <<>>
  /\ UNCHANGED <<dc, users, next_device_id, logs, blacklist, auto_block_off, system_settings,
                 engine_vars, config_vars, thread_vars, now, settled>>

\* DELETE /devices/<device_id> by the logged-in user user_id: delete_device.
\* It deletes the device's logs, token and profile rows and its devices row,
\* not its device_rules row, so where the foreign key is enforced and the
\* device has a rule row the DELETE raises and nothing is committed.  The
\* service's in-memory maps are not touched.
DeleteDevice(user_id, device_id, enforced) ==
  /\ user_id \in users
  /\ LET found == device_id \in DOMAIN devices /\ devices[device_id].user_id = user_id
         raises == found /\ enforced /\ devices[device_id].rule
         deleted == found /\ ~raises
     IN /\ devices' = IF deleted THEN [d \in DOMAIN devices \ {device_id} |-> devices[d]]
                       ELSE devices
        /\ logs' = IF deleted THEN SelectSeq(logs, LAMBDA row : row.device_id # device_id)
                    ELSE logs
        /\ last' = Op("delete_device", "", "", EmptyPayload,
                      IF ~found THEN "404" ELSE IF raises THEN "500" ELSE "200",
                      {}, device_id)
  /\ published' = <<>>
  /\ UNCHANGED <<dc, users, next_device_id, blacklist, auto_block_off, system_settings,
                 engine_vars, config_vars, thread_vars, now, settled>>

\* Thread t, in a start method, evaluates the guard of the scheduler it
\* is about to start: it returns, or goes on to set the flag.
StartCheck(t) ==
  /\ sched.pc[t] <= Len(StartOrder)
  /\ ~sched.passed[t]
  /\ sched' = IF start_returns(sched, StartOrder[sched.pc[t]])
              THEN [sched EXCEPT !.pc[t] = @ + 1]
              ELSE [sched EXCEPT !.passed[t] = TRUE]
  /\ published' = <<>>
  /\ last' = Op("start_check", "", "", EmptyPayload, "none", {}, NoDevice)
  /\ UNCHANGED <<dc, db_vars, engine_vars, config_vars, receiving, inflight, now, settled>>

\* Thread t, past the guard, sets the *_thread_started flag and starts the
\* loop thread.
StartLoop(t) ==
  /\ sched.passed[t]
  /\ sched' = [sched EXCEPT !.started[StartOrder[sched.pc[t]]] = TRUE,
                            !.loops[StartOrder[sched.pc[t]]] = @ + 1,
                            !.passed[t] = FALSE,
                            !.pc[t] = @ + 1]
  /\ published' = <<>>
  /\ last' = Op("start_loop", "", "", EmptyPayload, "none", {}, NoDevice)
  /\ UNCHANGED <<dc, db_vars, engine_vars, config_vars, receiving, inflight, now, settled>>

\* A step of the discovery client: the engine is not involved.
DcStep(op, c) ==
  /\ dc' = c
  /\ last' = Op(op, "", "", EmptyPayload, c.ret, {}, NoDevice)
  /\ published' = <<>>
  /\ UNCHANGED <<db_vars, engine_vars, config_vars, thread_vars, now, settled>>

\* DiscoveryClient._on_connect, on the network thread start() launched.
DcOnConnect(rc) ==
  /\ ~dc.subscribed
  /\ DcStep("dc_on_connect", [dc EXCEPT !.subscribed = (rc = 0)])

\* run_once, line 121 of publish_discover: the DISCOVER is handed to the bus.
DcPublishDiscover ==
  /\ dc.pc = "start"
  /\ DcStep("dc_publish_discover",
            [dc EXCEPT !.sent = Append(@, discover_body(Nonce)), !.pc = "set_nonce"])

\* run_once, line 122 of publish_discover: self.nonce = nonce.
DcSetNonce ==
  /\ dc.pc = "set_nonce"
  /\ DcStep("dc_set_nonce", [dc EXCEPT !.nonce = Nonce, !.pc = "wait_device"])

\* run_once: device_reply.wait returns True.
DcDeviceReplied ==
  /\ dc.pc = "wait_device" /\ dc.device_reply
  /\ DcStep("dc_device_replied", [dc EXCEPT !.pc = "publish_confirm"])

\* run_once: device_reply.wait times out and run_once returns False.
DcDeviceTimeout ==
  /\ dc.pc = "wait_device" /\ ~dc.device_reply
  /\ DcStep("dc_device_timeout", [dc EXCEPT !.pc = "returned", !.ret = "false"])

\* run_once: self.publish_confirm()
DcPublishConfirm ==
  /\ dc.pc = "publish_confirm"
  /\ DcStep("dc_publish_confirm", [dc_publish_confirm(dc) EXCEPT !.pc = "wait_confirm"])

\* run_once: confirm_reply.wait returns, set or timed out, and run_once
\* returns True.
DcConfirmWaited ==
  /\ dc.pc = "wait_confirm"
  /\ DcStep("dc_confirm_waited", [dc EXCEPT !.pc = "returned", !.ret = "true"])

\* The network thread calls _on_message with a message of the topic.
DcOnMessage(m) ==
  /\ dc.subscribed
  /\ dc.count < MaxMessages
  /\ DcStep("dc_on_message",
            [dc_on_message(dc, m) EXCEPT !.heard = @ \cup {m}, !.delivered = m,
                                         !.count = @ + 1])

\* mqtt_service.latest_settings.get(key): the keys every writer stores
\* under are device ids, which are ints; a key of another kind, such as a
\* token string, equals none of them.  The value found, in a list.
latest_settings_get(cache, kind, key) ==
  IF kind = "int" /\ key \in DOMAIN cache THEN <<cache[key]>> ELSE <<>>

\* GET /devices/<device_id>/settings/latest by the logged-in user user_id:
\* latest_settings, which looks the cache up under the device's token.
LatestSettings(user_id, device_id) ==
  /\ user_id \in users
  /\ LET found == device_id \in DOMAIN devices /\ devices[device_id].user_id = user_id
         token_value == devices[device_id].token
         payload == latest_settings_get(latest_settings, "str", token_value)
     IN last' = Op("latest_settings", "", "", EmptyPayload,
                   IF ~found THEN "404"
                   ELSE IF token_value = "" THEN "400"
                   ELSE IF payload = <<>> THEN "404" ELSE "200",
                   {}, device_id)
  /\ published' = <<>>
  /\ UNCHANGED <<dc, db_vars, engine_vars, config_vars, thread_vars, now, settled>>

\* Time passes.
Tick ==
  /\ now + TickSeconds <= StartTime + MaxClock * TickSeconds
  /\ now' = now + TickSeconds
  /\ published' = <<>>
  /\ last' = Op("tick", "", "", EmptyPayload, "none", {}, NoDevice)
  /\ UNCHANGED <<dc, db_vars, engine_vars, config_vars, thread_vars, settled>>

\* The state after MQTTService.__init__ and init_app, on an empty database.
InitWith(clients, allows, scheds) ==
  /\ users = {}
  /\ devices = <<>>
  /\ next_device_id = 1
  /\ logs = <<>>
  /\ blacklist = {}
  /\ auto_block_off = {}
  /\ system_settings = <<>>
  /\ client \in clients
  /\ allow_reregister \in allows
  /\ reregister_once = {}
  /\ pending_registrations = <<>>
  /\ latest_settings = <<>>
  /\ pending_blocks = <<>>
  /\ session_codes = <<>>
  /\ last_whitelist_sync = <<>>
  /\ pending_settings_requests = <<>>
  /\ now = StartTime
  /\ published = <<>>
  /\ last = Op("init", "", "", EmptyPayload, "none", {}, NoDevice)
  /\ settled = <<>>
  /\ receiving = client
  /\ sched \in scheds
  /\ inflight = NoCall
  /\ dc = DcInit

\* ------------------------------------------------------------ specification
\* Registration: an account, discovery requests for one device, replies on
\* the entrance topic, re-registration requests and the clock.
DiscoverMacs == {"AA:01"}
DiscoverTokens == {"TOK1", "tok2"}
ReplyPayloads ==
  {[EmptyPayload EXCEPT !.mac = m, !.token = t] :
     m \in {"aa:01", "bb:02"}, t \in {"tok1", "tok2"}}
  \cup {[EmptyPayload EXCEPT !.token = "tok1"], [EmptyPayload EXCEPT !.mac = "aa:01"]}
OneIpOrder == {<<"10.0.0.5", "10.0.0.9">>}

Init == InitWith({TRUE}, {FALSE}, {SchedIdle})

EntranceMessage ==
  \E payload \in ReplyPayloads, ord \in Orders, code \in SessionCodes :
    \E ipord \in OneIpOrder :
      OnMessage("esp/Entrance", "object", payload, ord, ipord, code)

Discover == \E m \in DiscoverMacs, t \in DiscoverTokens : DiscoverDevice(m, t)

Reregister == \E d \in DeviceIds : RequestReregister(d)

Next ==
  \/ RegisterUser
  \/ Discover
  \/ EntranceMessage
  \/ Reregister
  \/ Tick

Spec == Init /\ [][Next]_vars

\* Expiry: discovery requests for two devices with one token, their replies
\* and the clock.
TtlMacs == {"AA:01", "bb:02"}
TtlPayloads ==
  {[EmptyPayload EXCEPT !.mac = m, !.token = "tok1"] : m \in {"aa:01", "bb:02"}}

TtlMessage ==
  \E payload \in TtlPayloads, ord \in Orders, code \in {CodeBase} :
    \E ipord \in OneIpOrder :
      OnMessage("esp/Entrance", "object", payload, ord, ipord, code)

TtlDiscover == \E m \in TtlMacs : DiscoverDevice(m, "TOK1")

NextTtl ==
  \/ RegisterUser
  \/ TtlDiscover
  \/ TtlMessage
  \/ Tick

SpecTtl == Init /\ [][NextTtl]_vars

\* Resolution: the owner's account and another one, devices registered
\* through POST /devices, and payloads run through the resolver.
ResolveAccounts == 1..(MaxUsers + 1)
ResolveEspIds == {"e1", "e2", "e3"}
ResolveMacs == {"", "AA:01"}
ResolveTokens == {"", "tok1"}
ResolvePayloads ==
  {[EmptyPayload EXCEPT !.mac = m, !.token = t, !.device_name = n] :
     m \in {"", " aa:01 "}, t \in {"", "tok1"}, n \in {"", "cam"}}

InitResolve ==
  /\ users = ResolveAccounts
  /\ devices = <<>>
  /\ next_device_id = 1
  /\ logs = <<>>
  /\ blacklist = {}
  /\ auto_block_off = {}
  /\ system_settings = <<>>
  /\ client = TRUE
  /\ allow_reregister = FALSE
  /\ reregister_once = {}
  /\ pending_registrations = <<>>
  /\ latest_settings = <<>>
  /\ pending_blocks = <<>>
  /\ session_codes = <<>>
  /\ last_whitelist_sync = <<>>
  /\ pending_settings_requests = <<>>
  /\ now = StartTime
  /\ published = <<>>
  /\ last = Op("init", "", "", EmptyPayload, "none", {}, NoDevice)
  /\ settled = <<>>
  /\ receiving = client
  /\ sched = SchedIdle
  /\ inflight = NoCall
  /\ dc = DcInit

ResolveRegister ==
  \E u \in ResolveAccounts, e \in ResolveEspIds, t \in ResolveTokens, m \in ResolveMacs :
    RegisterDevice(u, "CAM", e, t, m)

Resolve == \E payload \in ResolvePayloads, ord \in Orders : ResolveDevice(payload, ord)

NextResolve ==
  \/ ResolveRegister
  \/ Resolve

SpecResolve == InitResolve /\ [][NextResolve]_vars

\* Events: one account, one device registered through POST /devices, alert,
\* settings and alive messages from it and from an unknown device, and
\* re-registration requests.
EventMacs == {"aa:01", "bb:02"}
BlockIps == {"10.0.0.5", "10.0.0.9"}
IpOrders == {<<"10.0.0.5", "10.0.0.9">>, <<"10.0.0.9", "10.0.0.5">>}
ReportedBlocked == {<<" 10.0.0.5 ", "10.0.0.5">>, <<"10.0.0.9">>}
AlertPayloads ==
  {[EmptyPayload EXCEPT !.mac = m, !.source_ip = ip, !.device_name = "cam"] :
     m \in EventMacs, ip \in BlockIps \cup {""}}
SettingsPayloads ==
  {[EmptyPayload EXCEPT !.mac = m, !.token = "tok1", !.blocked_ips = b] :
     m \in EventMacs, b \in ReportedBlocked}
AlivePayloads ==
  {[EmptyPayload EXCEPT !.mac = m, !.alert_mode = a] : m \in EventMacs, a \in {"", "off"}}

EventRegister == \E t \in {"", "tok1"} : RegisterDevice(1, "CAM", "e1", t, "AA:01")

AlertMessage ==
  \E payload \in AlertPayloads, ord \in Orders, ipord \in IpOrders :
    OnMessage("esp/alert", "object", payload, ord, ipord, CodeBase)

SettingsMessage ==
  \E payload \in SettingsPayloads, ord \in Orders, ipord \in IpOrders :
    OnMessage("esp/setting/now", "object", payload, ord, ipord, CodeBase)

AliveMessage ==
  \E payload \in AlivePayloads, ord \in Orders, ipord \in IpOrders :
    OnMessage("esp/alive", "object", payload, ord, ipord, CodeBase)

NextEvents ==
  \/ RegisterUser
  \/ EventRegister
  \/ AlertMessage
  \/ SettingsMessage
  \/ AliveMessage
  \/ Reregister

SpecEvents == Init /\ [][NextEvents]_vars

\* Publish faults: the events of SpecEvents from a device that holds a token,
\* each handled either with a working bus client or while client.publish
\* raises.
AlertPublishRaises ==
  \E payload \in AlertPayloads, ord \in Orders, ipord \in IpOrders :
    OnMessagePublishRaises("esp/alert", "object", payload, ord, ipord, CodeBase)

SettingsPublishRaises ==
  \E payload \in SettingsPayloads, ord \in Orders, ipord \in IpOrders :
    OnMessagePublishRaises("esp/setting/now", "object", payload, ord, ipord, CodeBase)

NextFaults ==
  \/ RegisterUser
  \/ EventRegister
  \/ AlertMessage
  \/ SettingsMessage
  \/ AlertPublishRaises
  \/ SettingsPublishRaises

SpecFaults == Init /\ [][NextFaults]_vars

\* Settings poll: one account with two devices, alerts from the first one,
\* settings reports with an empty blocked_ips and passes of the poll loop.
PollDevices == {<<"e1", "", "AA:01">>, <<"e1", "tok1", "AA:01">>, <<"e2", "tok2", "bb:02">>}
PollIpOrders ==
  {<<"10.0.0.5", JunkIp, "10.0.0.9">>, <<JunkIp, "10.0.0.9", "10.0.0.5">>}
PollAlertPayloads ==
  {[EmptyPayload EXCEPT !.mac = "aa:01", !.source_ip = ip] : ip \in {"10.0.0.5", JunkIp}}
PollSettingsPayloads ==
  {[EmptyPayload EXCEPT !.mac = "aa:01", !.token = "tok1"],
   [EmptyPayload EXCEPT !.mac = "bb:02", !.token = "tok2"]}

PollRegister == \E x \in PollDevices : RegisterDevice(1, "CAM", x[1], x[2], x[3])

PollAlert ==
  \E payload \in PollAlertPayloads, ord \in Orders, ipord \in PollIpOrders :
    OnMessage("esp/alert", "object", payload, ord, ipord, CodeBase)

PollSettings ==
  \E payload \in PollSettingsPayloads, ord \in Orders, ipord \in PollIpOrders :
    OnMessage("esp/setting/now", "object", payload, ord, ipord, CodeBase)

PollUpsert == \E d \in DeviceIds : UpsertToken(d, "tok1")

PollTick == \E ord \in Orders, ipord \in PollIpOrders : SettingsPoll(ord, ipord)

PollFault ==
  \E ord \in Orders, ipord \in PollIpOrders, fails_at \in DeviceIds :
    SettingsPollRaises(ord, ipord, fails_at)

NextPoll ==
  \/ RegisterUser
  \/ PollRegister
  \/ PollAlert
  \/ PollSettings
  \/ PollUpsert
  \/ PollTick
  \/ PollFault

SpecPoll == Init /\ [][NextPoll]_vars

\* Blocklist sync: one device, settings reports (one of them with a repeated
\* address) and calls of _sync_blacklist_to_device with an account blocklist.
SyncLists ==
  {<<>>, <<"10.0.0.5">>, <<"10.0.0.9">>, <<"10.0.0.9", "10.0.0.5">>, <<JunkIp>>}

SyncCall == \E d \in DeviceIds, blacklist_ips \in SyncLists : SyncBlacklist(d, blacklist_ips)

NextSync ==
  \/ RegisterUser
  \/ EventRegister
  \/ SettingsMessage
  \/ SyncCall

SpecSync == Init /\ [][NextSync]_vars

\* Threads: the settings-poll thread's blacklist sync, as its read of the
\* cache and its write of it, with the receive loop handling settings
\* reports of the same device in between.
SyncEnter == \E d \in DeviceIds, blacklist_ips \in SyncLists : SyncRead(d, blacklist_ips)

NextThreads ==
  \/ RegisterUser
  \/ EventRegister
  \/ SettingsMessage
  \/ SyncEnter
  \/ SyncWrite

SpecThreads == Init /\ [][NextThreads]_vars

\* Whitelists: one account with two devices that report their settings with
\* a topic whitelist, some with a timestamp of more than 30 minutes ago, the
\* clock, and whitelist syncs for the account.
LongAgo == StartTime - 31 * 60
WhitelistDevices == {<<"e1", "tok1", "AA:01">>, <<"e2", "tok2", "bb:02">>}
WhitelistPayloads ==
  {[EmptyPayload EXCEPT !.token = "tok1", !.g_mqtt_whitelist = wl] : wl \in {<<>>, <<"t/a">>}}
    \cup {[EmptyPayload EXCEPT !.token = "tok2", !.g_mqtt_whitelist = <<"t/b", " ">>,
                               !.ts = ts] : ts \in {NoTime, LongAgo}}

WhitelistRegister == \E x \in WhitelistDevices : RegisterDevice(1, "CAM", x[1], x[2], x[3])

WhitelistReport ==
  \E payload \in WhitelistPayloads, ord \in Orders, ipord \in OneIpOrder :
    OnMessage("esp/setting/now", "object", payload, ord, ipord, CodeBase)

WhitelistCall == \E user_id \in UserIds, ord \in Orders : WhitelistSync(user_id, ord)

NextWhitelist ==
  \/ RegisterUser
  \/ WhitelistRegister
  \/ WhitelistReport
  \/ WhitelistCall
  \/ Tick

SpecWhitelist == Init /\ [][NextWhitelist]_vars

\* Liveness: one account and its device, alive messages with and without an
\* alert_mode and a status field, and the clock.
AliveModes == {"", "on", "off", "silent"}
AliveStatuses == {"", "on", "ok"}
AliveFlagPayloads ==
  {[EmptyPayload EXCEPT !.mac = m, !.alert_mode = a, !.status = st] :
     m \in EventMacs, a \in AliveModes, st \in AliveStatuses}

AliveFlagMessage ==
  \E payload \in AliveFlagPayloads, ord \in Orders, ipord \in OneIpOrder :
    OnMessage("esp/alive", "object", payload, ord, ipord, CodeBase)

NextAlive ==
  \/ RegisterUser
  \/ EventRegister
  \/ AliveFlagMessage
  \/ Tick

SpecAlive == Init /\ [][NextAlive]_vars

\* Pruning: DEVICE_PRUNE_HOURS = 1 and a running cleanup loop; one account
\* with two devices, alerts from them that carry no time or a time one or
\* two hours before the service started, views of a device's rules, passes
\* of the cleanup loop and the clock.
SchedPrune ==
  [SchedIdle EXCEPT !.device_prune_hours = 1, !.started["device_cleanup"] = TRUE,
                    !.loops["device_cleanup"] = 1]
InitPrune == InitWith({TRUE}, {FALSE}, {SchedPrune})
PruneTimes == {NoTime, StartTime - 3600, StartTime - 2 * 3600}
PrunePayloads ==
  {[EmptyPayload EXCEPT !.token = tok, !.ts = ts] : tok \in {"tok1", "tok2"}, ts \in PruneTimes}

PruneRegister == \E x \in WhitelistDevices : RegisterDevice(1, "CAM", x[1], x[2], x[3])

PruneAlert ==
  \E payload \in PrunePayloads, ord \in Orders, ipord \in OneIpOrder :
    OnMessage("esp/alert", "object", payload, ord, ipord, CodeBase)

PruneRuleView == \E user_id \in UserIds, d \in DeviceIds : GetDeviceRule(user_id, d)

PrunePass == \E enforced \in BOOLEAN : DeviceCleanup(enforced)

NextPrune ==
  \/ RegisterUser
  \/ PruneRegister
  \/ PruneAlert
  \/ PruneRuleView
  \/ PrunePass
  \/ Tick

SpecPrune == InitPrune /\ [][NextPrune]_vars

\* Discovery client: one run of main, with the device's replies and
\* plaintext messages and the client's own messages, which the broker
\* sends back to it as a subscriber of the topic, delivered at any time.
DeviceMessages ==
  {DcMsg(TRUE, "n1", "tokA", "dev1", "{}", "device"),
   DcMsg(TRUE, "n0", "tokA", "dev1", "{}", "device"),
   DcMsg(TRUE, "n1", "", "dev1", "{}", "device"),
   DcMsg(TRUE, "n1", "tokA", "", "{}", "device"),
   DcMsg(FALSE, "", "", "", "Confirm", "device"),
   DcMsg(FALSE, "", "", "", "hello", "device")}

DcConnect == \E rc \in {0, 5} : DcOnConnect(rc)

DcDeviceMessage == \E m \in DeviceMessages : DcOnMessage(m)

DcEcho == \E i \in DOMAIN dc.sent : DcOnMessage(dc.sent[i])

NextClient ==
  \/ DcConnect
  \/ DcPublishDiscover
  \/ DcSetNonce
  \/ DcDeviceReplied
  \/ DcDeviceTimeout
  \/ DcPublishConfirm
  \/ DcConfirmWaited
  \/ DcDeviceMessage
  \/ DcEcho

SpecClient == Init /\ [][NextClient]_vars

\* Reads: one account and its device, settings reports, reads of the
\* device's latest settings and the clock.
ReadLatest == \E user_id \in UserIds, d \in DeviceIds : LatestSettings(user_id, d)

NextRead ==
  \/ RegisterUser
  \/ EventRegister
  \/ SettingsMessage
  \/ ReadLatest
  \/ Tick

SpecRead == Init /\ [][NextRead]_vars

\* Merges: one account and its device, settings reports, alerts, blacklist
\* syncs and whitelist syncs, the engine-side writers of the settings cache.
MergeWhitelist == \E user_id \in UserIds, ord \in Orders : WhitelistSync(user_id, ord)

MergeReport ==
  \E payload \in {[EmptyPayload EXCEPT !.mac = "aa:01", !.token = "tok1",
                                       !.blocked_ips = b] : b \in ReportedBlocked} :
    \E ord \in Orders, ipord \in IpOrders :
      OnMessage("esp/setting/now", "object", payload, ord, ipord, CodeBase)

MergeAlert ==
  \E payload \in {[EmptyPayload EXCEPT !.mac = "aa:01", !.source_ip = ip] : ip \in BlockIps} :
    \E ord \in Orders, ipord \in IpOrders :
      OnMessage("esp/alert", "object", payload, ord, ipord, CodeBase)

NextMerges ==
  \/ RegisterUser
  \/ EventRegister
  \/ MergeReport
  \/ MergeAlert
  \/ SyncCall
  \/ MergeWhitelist

SpecMerges == Init /\ [][NextMerges]_vars

\* The topic a published message travels on: its base name, or
\* `<base>-<code>` for a device that holds a session code.
wire_topic(m) ==
  IF m.code = 0 THEN m.topic
  ELSE IF m.code = CodeBase THEN m.topic \o "-1000" ELSE m.topic \o "-1001"

\* What json.loads makes of the body of a published message: the DISCOVER
\* broadcast and a settings payload are JSON objects, `Confirm-<code>-<token>`
\* and `showsetting-<token>` are not JSON.
echo_kind(m) == IF m.kind \in {"DISCOVER", "settings"} THEN "object" ELSE "invalid"

\* The object a published JSON body decodes to: {"cmd": "DISCOVER"}, or the
\* cached settings with the device's token and the merged blocked_ips.
echo_payload(m) ==
  IF m.kind = "DISCOVER" THEN [EmptyPayload EXCEPT !.cmd = "DISCOVER"]
  ELSE IF m.kind = "settings"
  THEN [EmptyPayload EXCEPT !.token = m.token, !.blocked_ips = m.blocked_ips,
                            !.g_mqtt_whitelist = m.g_mqtt_whitelist]
  ELSE EmptyPayload

\* The bodies of the messages the engine publishes in this run, decoded.
EchoBodies ==
  {EmptyPayload, [EmptyPayload EXCEPT !.cmd = "DISCOVER"]}
    \cup {[EmptyPayload EXCEPT !.token = "tok1", !.blocked_ips = b] :
            b \in {<<"10.0.0.5">>, <<"10.0.0.9">>, <<"10.0.0.5", "10.0.0.9">>,
                   <<"10.0.0.9", "10.0.0.5">>}}
EchoTopics == {"esp/Entrance", "esp/setting/Control", "esp/setting/Control-1000"}

\* The messages the engine published in its last step, as the broker hands
\* them to a subscriber: topic, kind of body and decoded body.
Echoes ==
  {<<wire_topic(published[i]), echo_kind(published[i]), echo_payload(published[i])>> :
     i \in DOMAIN published}

\* The receive loop handles a message: one a device sent or, the engine
\* being subscribed to esp/#, one the engine itself published in its last
\* step and the broker delivers back to it.
Received(topic, kind, payload, ord, ipord, echoed) ==
  /\ echoed => <<topic, kind, payload>> \in Echoes
  /\ OnMessage(topic, kind, payload, ord, ipord, CodeBase)

Echo ==
  \E topic \in EchoTopics, kind \in {"object", "invalid"}, payload \in EchoBodies :
    \E ord \in Orders, ipord \in OneIpOrder :
      Received(topic, kind, payload, ord, ipord, TRUE)

\* A settings report that names the device by its token.
EchoReport ==
  \E payload \in {[EmptyPayload EXCEPT !.token = "tok1", !.blocked_ips = <<"10.0.0.9">>]} :
    \E ord \in Orders, ipord \in OneIpOrder :
      Received("esp/setting/now", "object", payload, ord, ipord, FALSE)

\* An alert from the device with a source address.
EchoAlert ==
  \E payload \in {[EmptyPayload EXCEPT !.mac = "aa:01", !.source_ip = ip] : ip \in BlockIps} :
    \E ord \in Orders, ipord \in OneIpOrder :
      Received("esp/alert", "object", payload, ord, ipord, FALSE)

\* A discovery request for the device and the device's reply to it.
EchoDiscover == DiscoverDevice("AA:01", "TOK1")

EchoReply ==
  \E payload \in {[EmptyPayload EXCEPT !.mac = "aa:01", !.token = "tok1"]} :
    \E ord \in Orders, ipord \in OneIpOrder :
      Received("esp/Entrance", "object", payload, ord, ipord, FALSE)

\* A blacklist sync with one address of the account's blocklist.
EchoSync == \E d \in DeviceIds : SyncBlacklist(d, <<"10.0.0.5">>)

NextEcho ==
  \/ RegisterUser
  \/ EventRegister
  \/ EchoDiscover
  \/ EchoReply
  \/ EchoAlert
  \/ EchoReport
  \/ EchoSync
  \/ Echo

SpecEcho == Init /\ [][NextEcho]_vars

\* Deletion: DEVICE_PRUNE_HOURS = 1 and a running cleanup loop; one account
\* with two devices, alerts from them with a source address and a time two
\* hours before the service started, settings reports, views of a device's
\* rules, deletions by the operator and passes of the cleanup loop.
DeleteAlert ==
  \E payload \in {[EmptyPayload EXCEPT !.token = tok, !.source_ip = "10.0.0.5",
                                       !.ts = StartTime - 2 * 3600] :
                     tok \in {"tok1", "tok2"}} :
    \E ord \in Orders, ipord \in OneIpOrder :
      OnMessage("esp/alert", "object", payload, ord, ipord, CodeBase)

DeleteReport ==
  \E payload \in {[EmptyPayload EXCEPT !.token = "tok1", !.ts = StartTime - 2 * 3600]} :
    \E ord \in Orders, ipord \in OneIpOrder :
      OnMessage("esp/setting/now", "object", payload, ord, ipord, CodeBase)

DeleteCall ==
  \E user_id \in UserIds, d \in DeviceIds, enforced \in BOOLEAN :
    DeleteDevice(user_id, d, enforced)

NextDelete ==
  \/ RegisterUser
  \/ PruneRegister
  \/ DeleteAlert
  \/ DeleteReport
  \/ PruneRuleView
  \/ DeleteCall
  \/ PrunePass

SpecDelete == InitPrune /\ [][NextDelete]_vars

\* Session codes: discovery requests for two devices with a token each, and
\* their replies, each confirmed with a code _generate_session_code draws.
CodeDevices == {<<"AA:01", "TOK1">>, <<"bb:02", "tok2">>}

CodeDiscover == \E x \in CodeDevices : DiscoverDevice(x[1], x[2])

CodeReply ==
  \E payload \in {[EmptyPayload EXCEPT !.mac = Lower(x[1]), !.token = Lower(x[2])] :
                     x \in CodeDevices} :
    \E ord \in Orders, ipord \in OneIpOrder, code \in SessionCodes :
      OnMessage("esp/Entrance", "object", payload, ord, ipord, code)

NextCodes ==
  \/ RegisterUser
  \/ CodeDiscover
  \/ CodeReply
  \/ Tick

SpecCodes == Init /\ [][NextCodes]_vars

\* Queues: MaxQueued devices of one account that share the token tok1 and
\* one device with the token tok2; the three queue operations, each run
\* under pending_settings_lock, called in any order.  Requests for tok1 are
\* registered in the order of the device ids.
QueueDevices ==
  [d \in 1..(MaxQueued + 1) |->
     [user_id |-> 1, name |-> "CAM", esp_id |-> "e" \o ToString(d), is_active |-> FALSE,
      ip_address |-> "", mac_address |-> "",
      token |-> IF d <= MaxQueued THEN "tok1" ELSE "tok2", last_seen |-> NoTime,
      rule |-> FALSE]]

InitQueue ==
  /\ users = {1}
  /\ devices = QueueDevices
  /\ next_device_id = MaxQueued + 2
  /\ logs = <<>>
  /\ blacklist = {}
  /\ auto_block_off = {}
  /\ system_settings = <<>>
  /\ client = TRUE
  /\ allow_reregister = FALSE
  /\ reregister_once = {}
  /\ pending_registrations = <<>>
  /\ latest_settings = <<>>
  /\ pending_blocks = <<>>
  /\ session_codes = <<>>
  /\ last_whitelist_sync = <<>>
  /\ pending_settings_requests = <<>>
  /\ now = StartTime
  /\ published = <<>>
  /\ last = Op("init", "", "", EmptyPayload, "none", {}, NoDevice)
  /\ settled = <<>>
  /\ receiving = TRUE
  /\ sched = SchedIdle
  /\ inflight = NoCall
  /\ dc = DcInit

\* The queue stored under the token key k, empty when the key is absent.
QueueOf(requests, k) == IF k \in DOMAIN requests THEN requests[k] ELSE <<>>

\* One queue operation ran and left the map requests.
QueueStep(op, requests, token_value, d) ==
  /\ pending_settings_requests' = requests
  /\ last' = Op(op, "", "", [EmptyPayload EXCEPT !.token = token_value], "none", {}, d)
  /\ published' = <<>>
  /\ UNCHANGED <<dc, db_vars, reregister_once, pending_registrations, latest_settings,
                 pending_blocks, session_codes, last_whitelist_sync, config_vars,
                 thread_vars, now, settled>>

\* The devices a request is registered for next: the tok2 device, the first
\* tok1 device of an empty queue, the device after the last queued one or a
\* device that is queued already.
NextQueued ==
  LET queue == QueueOf(pending_settings_requests, "tok1")
  IN {MaxQueued + 1}
       \cup (IF queue = <<>> THEN {1}
             ELSE {queue[Len(queue)] + 1, queue[1]} \cap 1..MaxQueued)

\* The devices a request is cleared for: the first and the last queued
\* tok1 device, the second one while the queued ids are consecutive, and
\* the tok2 device.
Cleared ==
  LET queue == QueueOf(pending_settings_requests, "tok1")
      consecutive == queue # <<>> /\ queue[Len(queue)] - queue[1] = Len(queue) - 1
  IN {MaxQueued + 1}
       \cup {queue[i] : i \in {1, Len(queue)} \cap DOMAIN queue}
       \cup {queue[i] : i \in (IF consecutive THEN {2} ELSE {}) \cap DOMAIN queue}

QueueRegister ==
  \E d \in NextQueued :
    \E r \in {register_settings_request(Cur, d)} :
      QueueStep("register_settings_request", r.pending_settings_requests,
                devices[d].token, d)

QueuePop ==
  \E token_value \in {"TOK1", "tok2"} :
    \E r \in {pop_pending_settings_device(Cur, token_value)} :
      QueueStep("pop_pending_settings_device", r[1].pending_settings_requests,
                token_value, r[2])

QueueClear ==
  \E token_value \in {"TOK1", "tok2"}, d \in Cleared :
    \E r \in {clear_pending_settings_request(Cur, token_value, d)} :
      QueueStep("clear_pending_settings_request", r.pending_settings_requests,
                token_value, d)

NextQueue ==
  \/ QueueRegister
  \/ QueuePop
  \/ QueueClear

SpecQueue == InitQueue /\ [][NextQueue]_vars

\* Accounts: two accounts with one device each, alerts that name the device
\* by its token and updates of the accounts' system settings.
TenantDevices == {<<1, "e1", "tok1", "AA:01">>, <<2, "e2", "tok2", "bb:02">>}
TenantAlertPayloads ==
  {[EmptyPayload EXCEPT !.token = t, !.source_ip = ip] :
     t \in {"tok1", "tok2"}, ip \in BlockIps \cup {""}}

TenantRegister == \E x \in TenantDevices : RegisterDevice(x[1], "CAM", x[2], x[3], x[4])

TenantAlert ==
  \E payload \in TenantAlertPayloads, ord \in Orders, ipord \in IpOrders :
    OnMessage("esp/alert", "object", payload, ord, ipord, CodeBase)

TenantSettings ==
  \E user_id \in ResolveAccounts, flag \in {"", "true", "false"} :
    PutSystemSettings(user_id, TRUE, flag)

NextTenants ==
  \/ TenantRegister
  \/ TenantAlert
  \/ TenantSettings

SpecTenants == InitResolve /\ [][NextTenants]_vars

\* Control topic: an account, registration of one device over the bus,
\* alerts from it, re-registration requests and publishes by the operator.
ControlAlertPayloads ==
  {[EmptyPayload EXCEPT !.mac = "aa:01", !.source_ip = ip] : ip \in BlockIps}

ControlAlert ==
  \E payload \in ControlAlertPayloads, ord \in Orders, ipord \in OneIpOrder :
    OnMessage("esp/alert", "object", payload, ord, ipord, CodeBase)

OperatorPublish ==
  \E d \in DeviceIds, append_token \in BOOLEAN : PublishToDevice(d, "", append_token)

NextControl ==
  \/ RegisterUser
  \/ Discover
  \/ EntranceMessage
  \/ ControlAlert
  \/ Reregister
  \/ OperatorPublish

SpecControl == Init /\ [][NextControl]_vars

\* Dispatch: an account, one device, discovery requests and messages of
\* every kind on the topics the subscription esp/# delivers.
DispatchTopics ==
  {"esp/Entrance", "ESP/ALERT", "esp/setting/now", "esp/alive", "esp/other",
   "esp/alive/check"}
DispatchPayloads ==
  {[EmptyPayload EXCEPT !.mac = "aa:01", !.token = "tok1", !.message = "7"]}

DispatchMessage ==
  \E topic \in DispatchTopics, kind \in {"invalid", "scalar", "object"} :
    \E payload \in DispatchPayloads, ord \in Orders, ipord \in OneIpOrder :
      OnMessage(topic, kind, payload, ord, ipord, CodeBase)

NextDispatch ==
  \/ RegisterUser
  \/ EventRegister
  \/ Discover
  \/ DispatchMessage

SpecDispatch == Init /\ [][NextDispatch]_vars

\* Schedulers: the service is configured with intervals of every sign and
\* its start methods are called by several threads at once.
ConfiguredIntervals == {-5, 0, 15}
ConfiguredHours == {-1, 0, 24}

InitSched ==
  InitWith({TRUE}, {FALSE},
           {sched_config(configured, prune_hours, auto_discovery) :
              configured \in [Schedulers -> ConfiguredIntervals],
              prune_hours \in ConfiguredHours, auto_discovery \in BOOLEAN})

SchedCheck == \E t \in Starters : StartCheck(t)

SchedStart == \E t \in Starters : StartLoop(t)

NextSched ==
  \/ SchedCheck
  \/ SchedStart

SpecSched == InitSched /\ [][NextSched]_vars

\* ------------------------------------------------------------------- claims
\* The step handles a message on a discovery/entrance topic.
ReplyStep ==
  /\ last'.op = "on_message"
  /\ last'.kind = "object"
  /\ Lower(Strip(last'.topic)) \in {"esp/entrance", "esp/esp/entrance"}

\* The MAC and the token the handled reply carries.
ReplyMac == CoerceStr(Or3(last'.payload.mac, last'.payload.mac_address, ""))
ReplyToken == CoerceStr(last'.payload.token)

\* The handled reply matches an entry the ledger held before the step.
ReplyMatchesPending ==
  /\ ReplyMac # ""
  /\ ReplyToken # ""
  /\ Lower(ReplyMac) \in DOMAIN pending_registrations
  /\ pending_registrations[Lower(ReplyMac)].token = Lower(ReplyToken)

\* The step registers nothing: no device row appears, no token changes,
\* no session code is stored and no Confirm is published.
RegistersNothing ==
  /\ DOMAIN devices' = DOMAIN devices
  /\ \A d \in DOMAIN devices : devices'[d].token = devices[d].token
  /\ session_codes' = session_codes
  /\ \A i \in DOMAIN published' : published'[i].kind # "Confirm"

C1_Step ==
  ReplyStep /\ ReplyMatchesPending =>
    /\ Lower(ReplyMac) \notin DOMAIN pending_registrations'
    /\ DOMAIN devices \subseteq DOMAIN devices'
    /\ \E d \in DOMAIN devices' :
         /\ devices'[d].mac_address = ReplyMac
         /\ devices'[d].token = ReplyToken
         /\ devices'[d].is_active
         /\ \A e \in DOMAIN devices' \ {d} : e \in DOMAIN devices /\ devices'[e] = devices[e]
         /\ Len(published') = 1
         /\ published'[1] = Msg(discovery_topic, 0, "Confirm", ReplyToken,
                                published'[1].body_code, <<>>, <<>>)
         /\ published'[1].body_code \in SessionCodes
         /\ Lower(ReplyMac) \in DOMAIN session_codes'
         /\ session_codes'[Lower(ReplyMac)] = published'[1].body_code

\* C1: handling a reply whose MAC and token match an outstanding pending
\* entry removes the entry, creates or updates exactly one device holding
\* that MAC and token (active), stores the issued session code for it and
\* publishes exactly one Confirm-<code>-<token> on the discovery topic.
C1_MatchingReplyRegisters == [][C1_Step]_vars

\* A reply was accepted: its device holds the token and the stored code is
\* the one in the single Confirm.
C1_Witness ==
  /\ last.op = "on_message"
  /\ last.ret = "true"
  /\ Len(published) = 1
  /\ published[1].kind = "Confirm"
  /\ \E d \in DOMAIN devices :
       /\ devices[d].token = CoerceStr(last.payload.token)
       /\ session_codes[reply_key(last.payload)] = published[1].body_code

\* The handled reply repeats one that consumed its entry, with no request
\* for the key since.
SecondReply ==
  /\ ReplyStep
  /\ ReplyMac # ""
  /\ Lower(ReplyMac) \in DOMAIN settled
  /\ settled[Lower(ReplyMac)] = [how |-> "consumed", token |-> Lower(ReplyToken)]

\* C2: a second identical reply after its pending entry was consumed is
\* ignored: the handler returns false, no device is created or re-tokened,
\* no session code is stored and no Confirm is published.
C2_SecondReplyIgnored == [][SecondReply => last'.ret = "false" /\ RegistersNothing]_vars

\* The reply that registered a device arrived again and was refused.
C2_Witness ==
  /\ last.op = "on_message"
  /\ last.ret = "false"
  /\ reply_key(last.payload) \in DOMAIN settled
  /\ settled[reply_key(last.payload)] =
       [how |-> "consumed", token |-> Lower(CoerceStr(last.payload.token))]
  /\ \E d \in DOMAIN devices :
       /\ devices[d].token = CoerceStr(last.payload.token)
       /\ Lower(devices[d].mac_address) = reply_key(last.payload)

\* C3: a message on the discovery/entrance topic that matches no pending
\* entry (no entry, another token, no MAC or no token) leaves the ledger,
\* the session codes, the settings cache, the pending blocks and every
\* persisted record as they were.
C3_MismatchMutatesNothing ==
  [][ReplyStep /\ ~ReplyMatchesPending =>
       UNCHANGED <<pending_registrations, session_codes, latest_settings,
                   pending_blocks, devices, logs>>]_vars

\* The devices the registration of the handled reply would pick that hold
\* a token and have no re-registration request outstanding.
GatedDevices ==
  {d \in DOMAIN devices :
     /\ devices[d].esp_id = ReplyMac \/ Lower(devices[d].mac_address) = Lower(ReplyMac)
     /\ devices[d].token # ""
     /\ devices[d].esp_id \notin reregister_once}

\* C4: while allow_reregister is false, a discovery reply for a device that
\* holds a token is ignored until request_reregister is called for it.
C4_ReregistrationGated ==
  [][ReplyStep /\ ~allow_reregister /\ ReplyMac # "" /\ GatedDevices # {} =>
       last'.ret # "true" /\ RegistersNothing]_vars

\* The handled reply is for a key whose entry was older than the TTL when
\* a prune pass ran, and that was not requested again.
LateReply ==
  /\ ReplyStep
  /\ ReplyMac # ""
  /\ Lower(ReplyMac) \in DOMAIN settled
  /\ settled[Lower(ReplyMac)].how = "pruned"

\* After a prune pass no entry of the ledger is older than the TTL.
PrunedStep ==
  last'.op = "discover_device" /\ last'.ret = "true" =>
    \A key \in DOMAIN pending_registrations' :
      now' - pending_registrations'[key].ts <= ttl_sec

\* C5: entries older than the TTL are absent from the ledger after the
\* next prune pass, and a reply for a pruned entry is ignored (returns
\* false, registers nothing, publishes no Confirm).
C5_ExpiredEntriesPruned ==
  [][PrunedStep /\ (LateReply => last'.ret = "false" /\ RegistersNothing)]_vars

\* A reply arrived for an entry a prune pass had removed, and was refused.
C5_Witness ==
  /\ last.op = "on_message"
  /\ last.ret = "false"
  /\ reply_key(last.payload) \in DOMAIN settled
  /\ settled[reply_key(last.payload)].how = "pruned"
  /\ reply_key(last.payload) \notin DOMAIN pending_registrations

\* The service's request_registration called with any arguments, with or
\* without a bus client, and the clock.
RequestMacs == {"AA:01", "aa:01", "bb:02", " "}
RequestTokens == {"TOK1", "tok2", " "}

InitRequest == InitWith(BOOLEAN, {FALSE}, {SchedIdle})

Request == \E m \in RequestMacs, t \in RequestTokens : RequestRegistration(m, t)

NextRequest ==
  \/ Request
  \/ Tick

SpecRequest == InitRequest /\ [][NextRequest]_vars

\* The step is a call of request_registration.
RequestStep == last'.op = "request_registration"
RequestMac == CoerceStr(last'.payload.mac)
RequestToken == CoerceStr(last'.payload.token)
Discover_msg == Msg(discovery_topic, 0, "DISCOVER", "", 0, <<>>, <<>>)

\* No two keys of the ledger name the same identity.
OneEntryPerKey ==
  \A k1, k2 \in DOMAIN pending_registrations :
    Lower(Strip(k1)) = Lower(Strip(k2)) => k1 = k2

\* What request_registration does, but for the token the entry holds.
RequestEffect(stored_token) ==
  RequestStep =>
    IF RequestMac = "" \/ RequestToken = "" \/ ~client
    THEN /\ last'.ret = "false"
         /\ published' = <<>>
         /\ UNCHANGED pending_registrations
    ELSE /\ last'.ret = "true"
         /\ published' = <<Discover_msg>>
         /\ Lower(RequestMac) \in DOMAIN pending_registrations'
         /\ pending_registrations'[Lower(RequestMac)] = [token |-> stored_token, ts |-> now]

\* C6 as stated: the entry left for the key holds the requested token.
C6_EntryHoldsRequestedToken == [][RequestEffect(RequestToken)]_vars

\* C6, amended: a call with a blank identity or token or without a bus
\* client returns false, publishes nothing and leaves the ledger as it was;
\* any other call leaves one entry for the lower-cased key that holds the
\* lower-cased token and the current time, publishes one DISCOVER and
\* returns true; the ledger never holds two entries for one key.
C6_RequestRegistration ==
  [][RequestEffect(Lower(RequestToken)) /\ OneEntryPerKey']_vars

\* A request with an upper-case identity and token replaced the entry of
\* its key.
C6_Witness ==
  /\ last.op = "request_registration"
  /\ last.ret = "true"
  /\ last.payload.mac = "AA:01"
  /\ last.payload.token = "TOK1"
  /\ pending_registrations["aa:01"] = [token |-> "tok1", ts |-> now]
  /\ now > StartTime
  /\ published = <<Discover_msg>>

\* The last step ran the resolver.
ResolveStep == last.op = "resolve_device"
\* The devices of the configured account whose MAC is the payload's,
\* compared case-insensitively.
MacRows ==
  {d \in DOMAIN devices :
     /\ devices[d].user_id = owner_of(users)
     /\ devices[d].mac_address # ""
     /\ Lower(devices[d].mac_address) = Lower(Strip(Or2(last.payload.mac_address, last.payload.mac)))}
\* The devices whose token is the payload's.
TokenRows ==
  {d \in DOMAIN devices :
     devices[d].token # "" /\ devices[d].token = Strip(last.payload.token)}

C8_TokenStep ==
  ResolveStep =>
    /\ last.ret = "token" =>
         /\ Strip(Or2(last.payload.mac_address, last.payload.mac)) = ""
         /\ TokenRows = {last.device}
    /\ Cardinality(TokenRows) > 1 \/ Strip(Or2(last.payload.mac_address, last.payload.mac)) # "" =>
         /\ last.ret # "token"
         /\ \E ord \in Orders :
              last.device =
                resolve_device(users, devices, [last.payload EXCEPT !.token = ""], ord)

\* A token held by two devices was presented without a MAC, and a token
\* held by one device resolved to it.
C8_Witness ==
  /\ ResolveStep
  /\ Strip(Or2(last.payload.mac_address, last.payload.mac)) = ""
  /\ Cardinality(TokenRows) = 2
  /\ last.ret # "token"

\* The step handles an alert, settings or alive message.
EventStep ==
  /\ last'.op = "on_message"
  /\ last'.handlers \cap {"alert", "settings", "alive"} # {}
\* No device resolves from the message: the resolver finds none and, for a
\* settings report, no settings request is queued under its token.
ResolvesToNone ==
  /\ \A ord \in Orders : resolve_device(users, devices, last'.payload, ord) = NoDevice
  /\ Lower(Strip(last'.payload.token)) \notin DOMAIN pending_settings_requests
\* The step created device d as a placeholder for the message.
PlaceholderCreated(d) ==
  /\ d \notin DOMAIN devices
  /\ d \in DOMAIN devices'
  /\ last'.payload.device_name # "" => devices'[d].name = Strip(last'.payload.device_name)
  /\ last'.payload.esp_id = "" => devices'[d].esp_id = "unknown"

\* C9: an alert, settings or alive message that resolves to no existing
\* device creates a placeholder device, and an alert or a settings report
\* is logged against it.
C9_PlaceholderCreated ==
  [][EventStep /\ ResolvesToNone =>
       \E d \in DeviceIds :
         /\ PlaceholderCreated(d)
         /\ "alive" \notin last'.handlers =>
              /\ Len(logs') = Len(logs) + 1
              /\ logs'[Len(logs')].device_id = d]_vars

\* The cached blocked_ips of device d after _apply_blocklist_update merged
\* the pending set into the state s.
blocked_after(s, d, pending, ipord) ==
  apply_blocklist_update(s, d, pending, s.latest_settings[d], ipord).latest_settings[d].blocked_ips

\* The number of times ip occurs in the list xs.
occurrences(xs, ip) == Cardinality({i \in DOMAIN xs : xs[i] = ip})

\* C10: for every device with a token and a settings cache, merging a
\* pending set A and then a pending set B leaves the same set of cached
\* blocked_ips as merging A \cup B once, and every merged address occurs in
\* the cache once, also when it is merged twice.
C10_MergeIdempotent ==
  \A d \in DOMAIN latest_settings \cap DOMAIN devices :
    client /\ devices[d].token # "" =>
      \A A \in SUBSET BlockIps, B \in SUBSET BlockIps, o1 \in IpOrders, o2 \in IpOrders :
        LET sA == apply_blocklist_update(Cur, d, A, latest_settings[d], o1)
            after_AB == blocked_after(sA, d, B, o2)
            after_union == blocked_after(Cur, d, A \cup B, o1)
        IN /\ Range(after_AB) = Range(after_union)
           /\ \A ip \in A \cup B : occurrences(after_AB, ip) = 1

\* An alert's source address was merged into a cache that already held it
\* (the device had reported it, twice), and the cache holds it once.
C10_Witness ==
  /\ last.op = "on_message"
  /\ last.handlers = {"alert"}
  /\ last.payload.source_ip = "10.0.0.5"
  /\ \E d \in DOMAIN latest_settings :
       /\ latest_settings[d].blocked_ips = <<"10.0.0.5">>
       /\ \E i \in DOMAIN published :
            /\ published[i].kind = "settings"
            /\ published[i].blocked_ips = <<"10.0.0.5">>

\* The step handled an alert that resolved to device d and logged it.
AlertLoggedFor(d) ==
  /\ last'.op = "on_message"
  /\ last'.handlers = {"alert"}
  /\ Len(logs') = Len(logs) + 1
  /\ logs'[Len(logs')] = log_row(d, "alert")

\* C11: an alert whose source address is already in the device's cached
\* blocked_ips (the merged list equals the cached one) publishes nothing to
\* the device.
C11_NoopMergeSilent ==
  [][\A d \in DOMAIN devices \cap DOMAIN latest_settings :
       /\ AlertLoggedFor(d)
       /\ devices[d].token # ""
       /\ Strip(last'.payload.source_ip) # ""
       /\ merge_blocked(blocked_list_of(latest_settings[d]), <<Strip(last'.payload.source_ip)>>)
            = latest_settings[d].blocked_ips
       => published' = <<>>]_vars

\* C12: an address leaves a device's pending block set only by being merged
\* into that device's cached blocked_ips: in every step, each pending
\* address that is no longer pending afterwards is then in the cache.
C12_PendingDrained ==
  [][\A d \in DOMAIN pending_blocks :
       \A ip \in pending_blocks[d] :
         d \notin DOMAIN pending_blocks' \/ ip \notin pending_blocks'[d] =>
           /\ d \in DOMAIN latest_settings'
           /\ ip \in Range(latest_settings'[d].blocked_ips)]_vars

\* The address an alert step derives as the source.
AlertIp == Strip(last'.payload.source_ip)
\* The alert step added exactly one blacklist row, for the account of d.
OneRowAdded(d) ==
  /\ [user_id |-> devices[d].user_id, ip_address |-> AlertIp] \notin blacklist
  /\ blacklist' = blacklist \cup {[user_id |-> devices[d].user_id, ip_address |-> AlertIp]}
\* showsetting-<token> was published on the control topic of d.
ShowsettingPublished(d) ==
  \E i \in DOMAIN published' :
    /\ published'[i].topic = "esp/setting/Control"
    /\ published'[i].kind = "showsetting"
    /\ published'[i].token = devices[d].token
\* The alert's address is pending for d after the step.
PendingAfter(d) == d \in DOMAIN pending_blocks' /\ AlertIp \in pending_blocks'[d]
\* The alert's address is in the cached blocked_ips of d after the step.
MergedAfter(d) ==
  d \in DOMAIN latest_settings' /\ AlertIp \in Range(latest_settings'[d].blocked_ips)

\* C13 as stated: an alert with a source address (auto-block is enabled)
\* merges the address at once when the device has a settings cache and
\* otherwise publishes showsetting-<token> and keeps the address pending;
\* with no prior blacklist row it leaves one new row and one pending entry.
C13_QueueBlockAsStated ==
  [][\A d \in DOMAIN devices :
       AlertLoggedFor(d) /\ AlertIp # "" =>
         /\ d \in DOMAIN latest_settings => MergedAfter(d)
         /\ d \notin DOMAIN latest_settings => ShowsettingPublished(d) /\ PendingAfter(d)
         /\ [user_id |-> devices[d].user_id, ip_address |-> AlertIp] \notin blacklist =>
              OneRowAdded(d) /\ PendingAfter(d)]_vars

\* C13 amended: for a device that holds a token, the address is merged at
\* once and the pending set cleared when a settings cache exists, and
\* otherwise showsetting-<token> is published and the address stays
\* pending; for a device without a token nothing is queued or published.
\* With no prior blacklist row the alert leaves one new row.
C13_QueueBlock ==
  [][\A d \in DOMAIN devices :
       AlertLoggedFor(d) /\ AlertIp # "" =>
         /\ devices'[d].token # "" /\ d \in DOMAIN latest_settings =>
              MergedAfter(d) /\ d \notin DOMAIN pending_blocks'
         /\ devices'[d].token # "" /\ d \notin DOMAIN latest_settings =>
              ShowsettingPublished(d) /\ PendingAfter(d) /\ latest_settings' = latest_settings
         /\ devices'[d].token = "" =>
              pending_blocks' = pending_blocks /\ published' = <<>>
         /\ [user_id |-> devices[d].user_id, ip_address |-> AlertIp] \notin blacklist =>
              OneRowAdded(d)]_vars

\* An alert for a token-holding device without a settings cache left one
\* blacklist row, one pending address and a showsetting request.
C13_Witness ==
  /\ last.op = "on_message"
  /\ last.handlers = {"alert"}
  /\ last.payload.source_ip = "10.0.0.9"
  /\ blacklist = {[user_id |-> 1, ip_address |-> "10.0.0.9"]}
  /\ \E d \in DOMAIN pending_blocks :
       /\ pending_blocks[d] = {"10.0.0.9"}
       /\ d \notin DOMAIN latest_settings
       /\ devices[d].token = "tok1"
  /\ \E i \in DOMAIN published : published[i].kind = "showsetting"

\* The dotted-quad addresses on the blocklist of account u.
ValidBlocked(u) ==
  {r.ip_address : r \in {x \in blacklist : x.user_id = u /\ is_valid_ip(x.ip_address)}}

\* C15: the blocklist reader of the settings poll returns exactly the
\* account's persisted addresses that are dotted quads.
C15_ReaderKeepsIpv4 ==
  \A u \in users, ipord \in PollIpOrders :
    Range(get_blacklist_ips(blacklist, u, ipord)) = ValidBlocked(u)

\* C16: with one device, which holds a token, a pass of the settings poll
\* publishes showsetting-<token> to it, and once its cached settings report
\* has an empty blocked_ips the pass publishes to it a settings payload that
\* holds every dotted-quad address of the account blocklist.
C16_PollPushesBlocklist ==
  [][last'.op = "settings_poll" /\ Cardinality(DOMAIN devices) = 1 =>
       \A d \in DOMAIN devices :
         devices[d].token # "" =>
           /\ \E i \in DOMAIN published' :
                /\ published'[i].kind = "showsetting"
                /\ published'[i].token = devices[d].token
           /\ d \in DOMAIN latest_settings /\ latest_settings[d].blocked_ips = <<>> =>
                \A ip \in ValidBlocked(devices[d].user_id) :
                  \E i \in DOMAIN published' :
                    /\ published'[i].kind = "settings"
                    /\ published'[i].token = devices[d].token
                    /\ ip \in Range(published'[i].blocked_ips)]_vars

\* The step is a call of _sync_blacklist_to_device.
SyncStep == last'.op = "sync_blacklist_to_device"

\* The stripped cached blocked_ips of the device the step is about, before
\* the step.
SyncCached ==
  IF last'.device \in DOMAIN latest_settings
  THEN blocked_list_of(latest_settings[last'.device]) ELSE <<>>

\* The step left the settings cache and the bus untouched.
SyncSilent == latest_settings' = latest_settings /\ published' = <<>>

TokenDevice ==
  LET rows == {d \in DOMAIN devices : devices[d].token = CoerceStr(last'.payload.token)}
  IN IF Cardinality(rows) = 1 THEN CHOOSE d \in rows : TRUE ELSE NoDevice

\* The step handled an alert that carries a token only, the token of one
\* device, and a source address.
TokenAlertStep ==
  /\ last'.op = "on_message"
  /\ last'.handlers = {"alert"}
  /\ CoerceStr(last'.payload.mac) = ""
  /\ CoerceStr(last'.payload.source_ip) # ""
  /\ TokenDevice # NoDevice

\* The blacklist rows of the account for the address, after the step.
EntriesAfter(user_id, ip) ==
  {r \in blacklist' : r.user_id = user_id /\ r.ip_address = ip}

\* C17: after every alert with a source address for a device of an account
\* with auto-block enabled, the blacklist holds exactly one entry for that
\* account and address.
C17_OneEntryPerAccountIp ==
  [][TokenAlertStep /\ devices[TokenDevice].user_id \notin auto_block_off =>
       Cardinality(EntriesAfter(devices[TokenDevice].user_id,
                                CoerceStr(last'.payload.source_ip))) = 1]_vars

\* C18: an alert with a source address for a device of an account whose
\* settings explicitly disable auto-blocking creates no blacklist entry and
\* queues no address; with no settings row auto-block is enabled.
C18_AutoBlockCanBeDisabled ==
  [][TokenAlertStep =>
       LET user_id == devices[TokenDevice].user_id
       IN /\ user_id \in auto_block_off =>
               blacklist' = blacklist /\ pending_blocks' = pending_blocks
          /\ user_id \notin DOMAIN system_settings =>
               EntriesAfter(user_id, CoerceStr(last'.payload.source_ip)) # {}]_vars

\* The devices the i-th message published by the step is sent to: the device
\* of the operator's request, or the holders of the token the message names.
Addressees(i) ==
  IF last'.op = "publish_to_device" THEN {last'.device}
  ELSE {d \in DOMAIN devices' :
          devices'[d].token # "" /\ devices'[d].token = published'[i].token}

\* The session code stored for device d after the step, 0 when none is.
CodeAfter(d) ==
  session_code_for_device([devices |-> devices', session_codes |-> session_codes'], d)

\* C19: every message a step publishes to a device off the entrance topic
\* goes to the control base suffixed with the device's current session
\* code, and to the bare control base while the device has no code.
C19_ControlTopicByCode ==
  [][\A i \in DOMAIN published' :
       published'[i].topic # discovery_topic =>
         \A d \in Addressees(i) :
           /\ published'[i].topic = "esp/setting/Control"
           /\ published'[i].code = CodeAfter(d)]_vars

\* C20: every message whose payload decodes is handled by exactly one of
\* the handlers (registration reply, alert, settings, alive, generic log).
C20_ExactlyOneHandler ==
  [][last'.op = "on_message" /\ last'.kind # "invalid" =>
       Cardinality(last'.handlers) = 1]_vars

\* C21: a payload that is not JSON calls no handler and changes neither the
\* tables nor the engine's maps nor the bus, with a warning logged except on
\* esp/alive/check; a JSON value that is no object is dispatched as an
\* object whose only key is message, holding the value.
C21_MalformedInput ==
  [][last'.op = "on_message" =>
       /\ last'.kind = "invalid" =>
            /\ last'.handlers = {}
            /\ UNCHANGED <<db_vars, engine_vars>>
            /\ published' = <<>>
            /\ last'.warning <=> Lower(Strip(last'.topic)) # "esp/alive/check"
       /\ last'.kind = "scalar" =>
            /\ last'.dispatched.message = last'.payload.message
            /\ [last'.dispatched EXCEPT !.message = ""] = EmptyPayload]_vars

\* With a device registered, a payload that is not JSON arrived on the alert
\* topic and was dropped with a warning.
C21_Witness ==
  /\ last.op = "on_message"
  /\ last.kind = "invalid"
  /\ Lower(Strip(last.topic)) = "esp/alert"
  /\ last.warning
  /\ last.handlers = {}
  /\ devices # <<>>

\* C22: every scheduler has at most one loop running, however its start
\* method is called, and none when its configured interval is zero or
\* negative.
C22_AtMostOneLoop ==
  \A k \in Schedulers :
    /\ sched.loops[k] <= 1
    /\ sched.configured[k] <= 0 => sched.loops[k] = 0

\* C23: in a pass of the settings poll in which the handling of one device
\* raises, every other device that holds a token is still sent its
\* showsetting request.
C23_PollErrorIsolated ==
  [][last'.op = "settings_poll_raises" =>
       \A d \in DOMAIN devices :
         d # last'.device /\ devices[d].token # "" =>
           \E i \in DOMAIN published' :
             /\ published'[i].kind = "showsetting"
             /\ published'[i].token = devices[d].token]_vars

\* C24: after a handler raised on a message the receive loop is still
\* running, ready for the next message.
C24_ReceiveLoopSurvives == last.op = "on_message" /\ last.raised => receiving

\* C25: a publish that fails while a message is handled does not propagate
\* past the handler: no exception leaves the message handling, and an alert
\* or a settings report still persists its event.
PublishFailedStep == last'.op = "on_message" /\ last'.publish_raises
\* The events persisted by the step are those the same message persists
\* when the bus client works.
PersistsAsWithWorkingBus ==
  \E ord \in Orders, ipord \in IpOrders :
    logs' = on_message(Cur, last'.topic, last'.kind, last'.payload,
                       ord, ipord, CodeBase).s.logs
C25_PublishFailureNonFatal ==
  [][PublishFailedStep => ~last'.raised /\ PersistsAsWithWorkingBus]_vars

\* C26: the blacklist sync's read-modify-write of a device's cache entry is
\* atomic with respect to the receive loop: the entry it writes a merge over
\* is the entry the merge was computed from.
SyncWriteStep == last'.op = "sync_write" /\ latest_settings' # latest_settings
C26_NoStaleMerge ==
  [][SyncWriteStep => inflight.cached = sync_blacklist_call(Cur, inflight.device, <<>>).cached]_vars

\* C27: in every message handling, no message is published to the bus
\* while the store transaction of that message has uncommitted writes.
C27_NoPublishInOpenTransaction ==
  last.op = "on_message" => last.open_publishes = 0

\* C28: a whitelist sync for an account runs at most once per 3 seconds; when
\* it runs, every token-holding device of the account seen within the last
\* 30 minutes that has a cache entry ends with the union of those devices'
\* cached whitelists in its cache, was sent one payload with the union when
\* its set differed and nothing when it did not; such a device with no
\* cache entry is sent nothing and gets no entry.
WhitelistStep == last'.op = "whitelist_sync"
SyncRuns(u) ==
  client /\ (u \notin DOMAIN last_whitelist_sync \/ now - last_whitelist_sync[u] >= 3)
OnlineDevices(u) ==
  {d \in DOMAIN devices :
     /\ devices[d].user_id = u
     /\ devices[d].token # ""
     /\ devices[d].last_seen # NoTime
     /\ now - devices[d].last_seen <= 30 * 60}
TopicSet(entry) == {Strip(x) : x \in Range(entry.g_mqtt_whitelist)} \ {""}
TopicUnion(u) ==
  UNION {TopicSet(latest_settings[d]) : d \in OnlineDevices(u) \cap DOMAIN latest_settings}
SentTo(d) == {i \in DOMAIN published' : published'[i].token = devices[d].token}
AliveStep == last'.op = "on_message" /\ last'.handlers = {"alive"}
AliveResolves(d) == \A ord \in Orders : resolve_device(users, devices, last'.payload, ord) = d
BoolLike == {"on", "off", "enabled", "disabled", "true", "false", "1", "0"}
CarriedFlags ==
  {Lower(Strip(last'.payload.alert_mode)), Lower(Strip(last'.payload.status))} \cap BoolLike
C29_AliveFlagAuthoritative ==
  [][\A d \in DOMAIN devices :
       AliveStep /\ AliveResolves(d) =>
         /\ CarriedFlags = {} =>
              /\ devices'[d].is_active = devices[d].is_active
              /\ devices'[d].last_seen = now
         /\ \A f \in CarriedFlags :
              Cardinality(CarriedFlags) = 1 =>
                devices'[d].is_active = (f \in {"on", "enabled", "true", "1"})]_vars

\* C30: a pruning pass deletes every device whose last-seen is set and older
\* than the retention window, with its events, token and profile, and
\* deletes no device whose last-seen is within the window or unset.
CleanupStep == last'.op = "device_cleanup"
StaleDevices ==
  {d \in DOMAIN devices :
     /\ devices[d].last_seen # NoTime
     /\ now - devices[d].last_seen > sched.device_prune_hours * 3600}
C30_PruneStale ==
  [][CleanupStep =>
       /\ DOMAIN devices' = DOMAIN devices \ StaleDevices
       /\ \A d \in DOMAIN devices' : devices'[d] = devices[d]
       /\ logs' = SelectSeq(logs, LAMBDA row : row.device_id \notin StaleDevices)]_vars

\* C31: run_once publishes the DISCOVER with the nonce first; a
\* Confirm-<nonce>-<token> is published only after a JSON reply with that
\* nonce, a token and a device_id was received; run_once returns false and
\* publishes no confirm when no such reply arrived, and returns true once
\* the confirm was sent, acknowledged or not.
Confirms == {dc.sent[i] : i \in {j \in DOMAIN dc.sent : ~dc.sent[j].json}}
MatchingReplies ==
  {m \in dc.heard :
     m.origin = "device" /\ m.json /\ m.nonce = Nonce /\ m.token # "" /\ m.device_id # ""}
C31_HandshakeOrder ==
  /\ dc.pc # "start" => dc.sent # <<>> /\ dc.sent[1] = discover_body(Nonce)
  /\ \A c \in Confirms :
       \E r \in MatchingReplies : c.text = "Confirm-" \o Nonce \o "-" \o r.token
  /\ dc.pc = "returned" /\ MatchingReplies = {} => dc.ret = "false"
  /\ dc.ret = "false" => Confirms = {}
  /\ dc.pc = "returned" /\ Confirms # {} => dc.ret = "true"
  /\ dc.ret = "true" => Confirms # {}
\* run_once returned true after its confirm, with no acknowledgment received.
C31_Witness == dc.ret = "true" /\ Confirms # {} /\ ~dc.confirm_reply

\* C39: a device reply with the run's nonce is accepted whenever it is
\* delivered after the DISCOVER was published, and the acknowledgment event
\* is set only by a message of the device delivered after the client's own
\* confirm, never by the client's own confirm coming back or by a message
\* that precedes the confirm.
ClientHears == last'.op = "dc_on_message"
IsMatchingReply(m) ==
  m.origin = "device" /\ m.json /\ m.nonce = Nonce /\ m.token # "" /\ m.device_id # ""
C39_ClientInterleaving ==
  [][ClientHears =>
       /\ IsMatchingReply(dc'.delivered) /\ dc.sent # <<>> => dc'.device_reply
       /\ ~dc.confirm_reply /\ dc'.confirm_reply =>
            dc'.delivered.origin = "device" /\ Confirms # {}]_vars

\* C32: after a settings report from a token-holding device was handled,
\* the latest-settings read for that device returns the cached payload.
ReadStep == last'.op = "latest_settings"
C32_CacheKeyConsistent ==
  [][\A d \in DOMAIN devices \cap DOMAIN latest_settings :
       ReadStep /\ last'.device = d /\ devices[d].token # "" /\ devices[d].user_id \in users
         => last'.ret = "200"]_vars

\* The step is the handling of a settings report from a device.
SettingsReportStep == last'.op = "on_message" /\ "settings" \in last'.handlers

\* The list xs is the beginning of the list ys.
IsPrefix(xs, ys) == Len(xs) <= Len(ys) /\ SubSeq(ys, 1, Len(xs)) = xs

\* No item occurs twice in the list xs.
NoRepeats(xs) == \A i, j \in DOMAIN xs : xs[i] = xs[j] => i = j

ReplyMatchesExpired ==
  /\ ReplyMatchesPending
  /\ now - pending_registrations[Lower(ReplyMac)].ts > ttl_sec

\* C34: a reply that matches a pending entry older than the TTL of 300 s is
\* not accepted (it returns false, registers nothing and publishes no
\* Confirm), also when no request_registration pruned the ledger since the
\* entry expired.
C34_ExpiredNeverConsumed ==
  [][ReplyStep /\ ReplyMatchesExpired =>
       last'.ret = "false" /\ RegistersNothing]_vars

\* The step handles a message the engine itself published in the step
\* before: the broker delivered it back.
EchoStep ==
  /\ last'.op = "on_message"
  /\ \E i \in DOMAIN published :
       /\ last'.topic = wire_topic(published[i])
       /\ last'.kind = echo_kind(published[i])
       /\ last'.payload = echo_payload(published[i])

\* C35: a message of the engine that the bus delivers back to it (DISCOVER,
\* Confirm, showsetting or a merged settings payload) changes no state: the
\* settings cache, the devices' liveness and last-seen and the events stay
\* as they were.
C35_EchoIgnored ==
  [][EchoStep => /\ latest_settings' = latest_settings
                 /\ devices' = devices
                 /\ logs' = logs]_vars

\* The step handles a message that carries a MAC with one of the event
\* handlers (alert, settings, alive or generic log).
MacMessageStep ==
  /\ last'.op = "on_message"
  /\ last'.handlers \cap {"alert", "settings", "alive", "generic_log"} # {}
  /\ CoerceStr(Or3(last'.payload.mac_address, last'.payload.mac, "")) # ""

\* C36: a message that carries a MAC is never attributed to a device whose
\* stored MAC is non-empty and different, also when a settings report falls
\* back to the pending-settings-request queue: no handler replaces a stored
\* MAC by a different one.
C36_NoMacOverwrite ==
  [][MacMessageStep =>
       \A d \in DOMAIN devices :
         devices[d].mac_address # "" =>
           Lower(devices'[d].mac_address) = Lower(devices[d].mac_address)]_vars

\* The devices the pending-settings-request queues name.
QueuedDevices ==
  UNION {Range(pending_settings_requests[k]) : k \in DOMAIN pending_settings_requests}

\* The session-code keys (lower-cased MAC or esp_id) of the devices rows.
DeviceKeys ==
  {Lower(devices[d].mac_address) : d \in DOMAIN devices}
    \cup {Lower(devices[d].esp_id) : d \in DOMAIN devices}

\* C37: the settings cache, the pending-block sets, the session-code map and
\* the pending-settings-request queues hold no entry for a device that has
\* no devices row (one the pruning loop or the delete route removed).
C37_NoEphemeralStateOfDeleted ==
  /\ DOMAIN latest_settings \subseteq DOMAIN devices
  /\ DOMAIN pending_blocks \subseteq DOMAIN devices
  /\ QueuedDevices \subseteq DOMAIN devices
  /\ DOMAIN session_codes \subseteq DeviceKeys

\* The session code device d holds, 0 when it holds none.
CodeOf(d) == session_code_for_device(Cur, d)

\* C38: two different registered devices that both hold a session code hold
\* different codes, so esp/setting/Control-<code> names one device.
C38_CodesDistinct ==
  \A d1 \in DOMAIN devices, d2 \in DOMAIN devices :
    d1 # d2 /\ CodeOf(d1) # 0 /\ CodeOf(d2) # 0 => CodeOf(d1) # CodeOf(d2)

\* Every queue of the map is non-empty, names no device twice and has at
\* most 50 entries.
QueueShape(requests) ==
  \A k \in DOMAIN requests :
    /\ requests[k] # <<>>
    /\ NoRepeats(requests[k])
    /\ Len(requests[k]) <= 50

\* The step leaves the queues of every key but k as they were.
OnlyQueue(k) ==
  \A other \in (DOMAIN pending_settings_requests \cup DOMAIN pending_settings_requests') \ {k} :
    QueueOf(pending_settings_requests', other) = QueueOf(pending_settings_requests, other)

\* The token key and the queue the step's operation works on, before and
\* after the step.
StepKey == Lower(last'.payload.token)
QueueBefore == QueueOf(pending_settings_requests, StepKey)
QueueAfter == QueueOf(pending_settings_requests', StepKey)

\* register appends the device unless it is queued, and keeps the last 50.
RegisterKeepsOrder ==
  last'.op = "register_settings_request" =>
    LET grown == IF last'.device \in Range(QueueBefore) THEN QueueBefore
                 ELSE Append(QueueBefore, last'.device)
        from == IF Len(grown) > 50 THEN Len(grown) - 49 ELSE 1
    IN QueueAfter = SubSeq(grown, from, Len(grown)) /\ OnlyQueue(StepKey)

\* pop returns the device queued first and removes it.
PopIsFifo ==
  last'.op = "pop_pending_settings_device" =>
    /\ QueueBefore # <<>> =>
         last'.device = Head(QueueBefore) /\ QueueAfter = Tail(QueueBefore)
    /\ QueueBefore = <<>> => last'.device = NoDevice /\ QueueAfter = <<>>
    /\ OnlyQueue(StepKey)

\* clear removes the device from the token's queue and nothing else.
ClearIsExact ==
  last'.op = "clear_pending_settings_request" =>
    /\ QueueAfter = SelectSeq(QueueBefore, LAMBDA x : x # last'.device)
    /\ OnlyQueue(StepKey)

\* C40: under any order of register, pop and clear every queue of the map is
\* non-empty, names no device twice and has at most 50 entries; pop returns
\* the devices in the order their requests were registered; clear removes
\* that device from that token's queue and nothing else.
C40_QueueShape ==
  [][/\ QueueShape(pending_settings_requests')
     /\ RegisterKeepsOrder
     /\ PopIsFifo
     /\ ClearIsExact]_vars

\* The 51st request for tok1 was registered: the queue holds the last 50
\* devices, the one registered first dropped.
C40_Witness ==
  /\ last.op = "register_settings_request"
  /\ last.device = 51
  /\ "tok1" \in DOMAIN pending_settings_requests
  /\ Len(pending_settings_requests["tok1"]) = 50
  /\ Head(pending_settings_requests["tok1"]) = 2

====
